---------------------------- MODULE Spec2Model ----------------------------
(***************************************************************************)
(* Model of the MCMC simulator component (src/app/simulator.tsx): the      *)
(* chain state kept in stateRef, the six kernels, the animation-frame loop *)
(* that folds kernel results into the chain, and the UI handlers.          *)
(*                                                                         *)
(* Numbers are the program's: IEEE 754 doubles, with the operations of the *)
(* language (+, -, *, /, <, Math.sqrt) rounded as IEEE 754 rounds them and *)
(* Math.exp, Math.log, Math.sin, Math.cos computed as the engine computes  *)
(* them (V8: the fdlibm algorithms).  A parameter of a slider is the       *)
(* double parseFloat gives for the slider's decimal value.                 *)
(***************************************************************************)
EXTENDS Integers, Sequences, FiniteSets, TLC

\* ------------------------------------------------------------------- state

VARIABLES
    algo,         \* useState<AlgoType>
    target,       \* useState<TargetType>
    isRunning,    \* useState<boolean>
    params,       \* useState<Params>
    stateRef,     \* stateRef.current: x, y, samples, currentPath
    animate,      \* the values closed over by the animate callback last registered
    requestRef,   \* TRUE while an animation-frame callback is pending
    pc,           \* where the running animate call stands ("idle": none is running)
    k,            \* animate's loop index
    emitted,      \* history: every sample folded since the last reset, with the
                  \* kernel and target that produced it
    last,         \* history: the last kernel step folded since the last reset
    trace         \* history: the last operation, whether it repeats the one
                  \* before it, for a parameter input the state before it, and
                  \* the UI events the behaviour may still hold

vars == <<algo, target, isRunning, params, stateRef, animate, requestRef,
          pc, k, emitted, last, trace>>

\* ------------------------------------------------------------------ bounds

\* kernel steps a chain may take between two resets (Spec, SpecRaw)
MaxSteps == 2
\* UI events a behaviour may hold (Spec, SpecRaw)
MaxInputs == 3
\* kernel steps a chain may take from its seed (SpecChain)
ChainSteps == 2
\* frames of 20 steps the long chain of SpecLong may take beyond the
\* capacity of the history
ExtraFrames == 1

\* --------------------------------------------------------- program constants

\* samples.length > 2000 => shift()
Capacity == 2000
\* slice: step-out iterations per side, and shrink tries
SliceOutCap == 100
SliceShrinkCap == 100
\* elliptical slice: tries
EllipticalCap == 50
\* hit-and-run: doublings per side, and shrink tries
HitRunOutCap == 20
HitRunShrinkCap == 50

\* ------------------------------------------------------------- numbers
\* The program's numbers are IEEE 754 doubles.  A double is a record
\* [s, e, m]: the value (-1)^s * M * 2^e, where m = <<m1, m2, m3, m4>> are
\* the limbs of the integer M in base 2^14, least significant first.  A
\* normal number has 2^52 <= M < 2^53 and -1074 <= e <= 971; a subnormal
\* one, and zero, has e = -1074 and M < 2^52; an infinity has e = 1024 and
\* M = 0, and NaN is the one record with e = 1024 and M # 0.  Every
\* operation returns the double the IEEE operation returns (rounding to
\* nearest, ties to even).

\* Call(op, a, b) is the operation op of the program applied to a and b.
\* The arithmetic of the doubles, the passes of the loops and the kernels
\* are applied through it, the one operator that is defined in terms of
\* itself.
RECURSIVE Call(_, _, _)

\* the base of the limbs
Base == 2 ^ 14

Max(a, b) == IF a >= b THEN a ELSE b

Min(a, b) == IF a <= b THEN a ELSE b

\* limb j of N (from 1), 0 outside N
At(N, j) == IF j < 1 \/ j > Len(N) THEN 0 ELSE N[j]

\* the limb of N whose lowest bit is bit 14 * j + r of N, 0 <= r < 14
LimbFrom(N, j, r) ==
    (At(N, j + 1) \div (2 ^ r)) + (At(N, j + 2) % (2 ^ r)) * (2 ^ (14 - r))

\* the limb of floor(N / 2^sh) whose lowest bit is its bit t - sh
LimbAt(N, t) == LimbFrom(N, t \div 14, t % 14)

\* the four low limbs of floor(N / 2^sh), for any integer sh
Shift4(N, sh) ==
    <<LimbAt(N, sh), LimbAt(N, sh + 14), LimbAt(N, sh + 28), LimbAt(N, sh + 42)>>

\* the eight low limbs of floor(N / 2^sh)
Shift8(N, sh) ==
    <<LimbAt(N, sh), LimbAt(N, sh + 14), LimbAt(N, sh + 28), LimbAt(N, sh + 42),
      LimbAt(N, sh + 56), LimbAt(N, sh + 70), LimbAt(N, sh + 84), LimbAt(N, sh + 98)>>

\* the number of bits of a limb
Bits(v) ==
    IF v < 128
    THEN (IF v < 8
          THEN (IF v < 2 THEN v ELSE IF v < 4 THEN 2 ELSE 3)
          ELSE IF v < 32 THEN (IF v < 16 THEN 4 ELSE 5)
          ELSE IF v < 64 THEN 6 ELSE 7)
    ELSE (IF v < 2048
          THEN (IF v < 512 THEN (IF v < 256 THEN 8 ELSE 9)
                ELSE IF v < 1024 THEN 10 ELSE 11)
          ELSE IF v < 8192 THEN (IF v < 4096 THEN 12 ELSE 13)
          ELSE 14)

\* the greatest of the indices S, 0 if there is none
Last(S) == IF S = {} THEN 0 ELSE CHOOSE i \in S : \A j \in S : j <= i

\* the highest limb of N that is not 0; 0 if there is none
Top(N) == Last({i \in 1..Len(N) : N[i] # 0})

BitLenAt(N, t) == IF t = 0 THEN 0 ELSE 14 * (t - 1) + Bits(N[t])

\* the number of bits of N
BitLen(N) == BitLenAt(N, Top(N))

\* bit p of N
BitAt(N, p) == (At(N, (p \div 14) + 1) \div (2 ^ (p % 14))) % 2

\* whether N has a bit below bit p
AnyBelow(N, p) ==
    \E j \in 1..Len(N) :
        IF 14 * j <= p THEN N[j] # 0
        ELSE IF 14 * (j - 1) < p THEN N[j] % (2 ^ (p - 14 * (j - 1))) # 0
        ELSE FALSE

\* A computation of several steps is written as the steps applied one
\* after the other to a value v: [[v |-> start] EXCEPT !.v = First(@),
\* !.v = Second(@), ...].v, each @ being the value the step before left.

\* the carry k out of the limbs acc, with limb i of c taken in
Carried(s, c, i) ==
    IF i > Len(c) THEN s
    ELSE [k |-> (c[i] + s.k) \div Base, acc |-> Append(s.acc, (c[i] + s.k) % Base)]

\* the limbs c (eight at most) with the carries taken: limbs in
\* 0 .. Base - 1, and the carry out of the last one appended
Carry(c) ==
    [[v |-> [k |-> 0, acc |-> <<>>]]
     EXCEPT !.v = Carried(@, c, 1), !.v = Carried(@, c, 2), !.v = Carried(@, c, 3),
            !.v = Carried(@, c, 4), !.v = Carried(@, c, 5), !.v = Carried(@, c, 6),
            !.v = Carried(@, c, 7), !.v = Carried(@, c, 8),
            !.v = Append(@.acc, @.k)].v

IsZeroLimbs(N) == \A j \in 1..Len(N) : N[j] = 0

\* ---- the values

NaN == [s |-> 0, e |-> 1024, m |-> <<0, 0, 0, 1>>]

Inf(s) == [s |-> s, e |-> 1024, m |-> <<0, 0, 0, 0>>]

Zero(s) == [s |-> s, e |-> -1074, m |-> <<0, 0, 0, 0>>]

IsNaN(x) == x.e = 1024 /\ x.m[4] # 0

IsInf(x) == x.e = 1024 /\ x.m[4] = 0

IsZero(x) == x.e = -1074 /\ IsZeroLimbs(x.m)

IsFinite(x) == x.e < 1024

\* 2^53 is 2^52 with the exponent one higher; beyond 2^1024 it is Infinity
Finite(s, e, M) ==
    IF M[4] >= 2048
    THEN (IF e + 1 > 971 THEN Inf(s) ELSE [s |-> s, e |-> e + 1, m |-> <<0, 0, 0, 1024>>])
    ELSE IF e > 971 THEN Inf(s)
    ELSE [s |-> s, e |-> e, m |-> M]

\* M + 1
Inc(M) ==
    IF M[1] < Base - 1 THEN <<M[1] + 1, M[2], M[3], M[4]>>
    ELSE IF M[2] < Base - 1 THEN <<0, M[2] + 1, M[3], M[4]>>
    ELSE IF M[3] < Base - 1 THEN <<0, 0, M[3] + 1, M[4]>>
    ELSE <<0, 0, 0, M[4] + 1>>

\* round to nearest, ties to even: M is what is kept, half the first bit
\* dropped, sticky whether a lower one is set
Nearest(s, e, M, half, sticky) ==
    IF half /\ (sticky \/ M[1] % 2 = 1) THEN Finite(s, e, Inc(M)) ELSE Finite(s, e, M)

\* N * 2^E with sh bits dropped
Dropped(s, N, E, st, sh) ==
    IF sh <= 0 THEN Finite(s, E + sh, Shift4(N, sh))
    ELSE Nearest(s, E + sh, Shift4(N, sh), BitAt(N, sh - 1) = 1,
                 st \/ AnyBelow(N, sh - 1))

RoundBits(s, N, E, st, n) ==
    IF n = 0 THEN Zero(s) ELSE Dropped(s, N, E, st, Max(n - 53, -1074 - E))

\* the double nearest to (-1)^s * (N + f) * 2^E, for limbs N and a fraction
\* 0 <= f < 1 that is not 0 iff st
Round(s, N, E, st) == Call("Round", <<s, N, E, st>>, BitLen(N))

\* ---- comparison

\* M1 < M2, limbs compared from the highest
LimbsLess(A, C) ==
    IF A[4] # C[4] THEN A[4] < C[4]
    ELSE IF A[3] # C[3] THEN A[3] < C[3]
    ELSE IF A[2] # C[2] THEN A[2] < C[2]
    ELSE A[1] < C[1]

\* |x| < |y|
MagLess(x, y) == IF x.e # y.e THEN x.e < y.e ELSE LimbsLess(x.m, y.m)

\* x < y
Lt(x, y) ==
    IF IsNaN(x) \/ IsNaN(y) THEN FALSE
    ELSE IF IsZero(x) /\ IsZero(y) THEN FALSE
    ELSE IF x.s # y.s THEN x.s = 1
    ELSE IF x.s = 0 THEN MagLess(x, y) ELSE MagLess(y, x)

\* x > y
Gt(x, y) == Lt(y, x)

\* x === y
Eq(x, y) ==
    IF IsNaN(x) \/ IsNaN(y) THEN FALSE
    ELSE IF IsZero(x) /\ IsZero(y) THEN TRUE
    ELSE x = y

\* x <= y
Le(x, y) == Lt(x, y) \/ Eq(x, y)

\* x >= y
Ge(x, y) == Le(y, x)

\* -x
Neg(x) == IF IsNaN(x) THEN x ELSE [x EXCEPT !.s = 1 - x.s]

\* Math.abs(x)
Fabs(x) == IF IsNaN(x) THEN x ELSE [x EXCEPT !.s = 0]

\* ---- multiplication

\* the columns of the product of two numbers of four limbs
Columns(a, b) ==
    <<a[1] * b[1],
      a[1] * b[2] + a[2] * b[1],
      a[1] * b[3] + a[2] * b[2] + a[3] * b[1],
      a[1] * b[4] + a[2] * b[3] + a[3] * b[2] + a[4] * b[1],
      a[2] * b[4] + a[3] * b[3] + a[4] * b[2],
      a[3] * b[4] + a[4] * b[3],
      a[4] * b[4],
      0>>

\* x * y
Multiplication(x, y) ==
    IF IsNaN(x) \/ IsNaN(y) THEN NaN
    ELSE IF IsInf(x) \/ IsInf(y)
         THEN (IF IsZero(x) \/ IsZero(y) THEN NaN ELSE Inf((x.s + y.s) % 2))
    ELSE Round((x.s + y.s) % 2, SubSeq(Carry(Columns(x.m, y.m)), 1, 8),
               x.e + y.e, FALSE)

\* ---- addition

Plus(A, C) ==
    <<A[1] + C[1], A[2] + C[2], A[3] + C[3], A[4] + C[4],
      A[5] + C[5], A[6] + C[6], A[7] + C[7], A[8] + C[8]>>

Minus(A, C) ==
    <<A[1] - C[1], A[2] - C[2], A[3] - C[3], A[4] - C[4],
      A[5] - C[5], A[6] - C[6], A[7] - C[7], A[8] - C[8]>>

Wide(M) == <<M[1], M[2], M[3], M[4], 0, 0, 0, 0>>

\* the double of sign s nearest to |A - C| * 2^E, the sign turned if
\* A < C; D is A - C with the carries taken
Differ(s, A, C, E, D) ==
    IF D[9] < 0 THEN Round(1 - s, SubSeq(Carry(Minus(C, A)), 1, 8), E, FALSE)
    ELSE IF IsZeroLimbs(D) THEN Zero(0)
    ELSE Round(s, SubSeq(D, 1, 8), E, FALSE)

\* (-1)^s * A * 2^E + (-1)^t * C * 2^E
Sum(s, A, t, C, E) ==
    IF s = t THEN Round(s, SubSeq(Carry(Plus(A, C)), 1, 8), E, FALSE)
    ELSE Differ(s, A, C, E, Carry(Minus(A, C)))

\* x + y for finite x, y with x.e >= y.e: a y more than 55 binary places
\* below x leaves x
AddOrdered(x, y) ==
    IF IsZero(y) THEN (IF IsZero(x) THEN Zero(IF x.s = 1 /\ y.s = 1 THEN 1 ELSE 0) ELSE x)
    ELSE IF x.e - y.e > 55 THEN x
    ELSE Sum(x.s, Shift8(x.m, y.e - x.e), y.s, Wide(y.m), y.e)

\* x + y
Addition(x, y) ==
    IF IsNaN(x) \/ IsNaN(y) THEN NaN
    ELSE IF IsInf(x) THEN (IF IsInf(y) /\ x.s # y.s THEN NaN ELSE x)
    ELSE IF IsInf(y) THEN y
    ELSE IF x.e >= y.e THEN AddOrdered(x, y) ELSE AddOrdered(y, x)

\* ---- division

\* M * 2^k with k such that the product has 56 bits: the limbs, and k
Left(M, n) == [m |-> Shift4(M, n - 56), k |-> 56 - n]

Normal(M) == Left(M, BitLen(M))

\* the remainder d.r (four limbs and the carry out of them, below 0 if the
\* digit d.q was taken too large) with the divisor v added back once if it
\* is below 0
AddBack(d, v) ==
    IF d.r[5] >= 0 THEN d
    ELSE [r |-> Carry(<<d.r[1] + v[1], d.r[2] + v[2], d.r[3] + v[3],
                        d.r[4] + v[4] + Base * d.r[5]>>),
          q |-> d.q - 1]

\* Base * r - q * v
Partial(r, v, q) ==
    Carry(<<0 - q * v[1], r[1] - q * v[2], r[2] - q * v[3],
            r[3] - q * v[4] + Base * r[4]>>)

\* the digit q, at most 2 too large, brought down to the digit
DigitFrom(r, v, q) ==
    [[v |-> [r |-> Partial(r, v, q), q |-> q]]
     EXCEPT !.v = AddBack(@, v), !.v = AddBack(@, v),
            !.v = [r |-> SubSeq(@.r, 1, 4), q |-> @.q]].v

\* one digit of the quotient and the remainder it leaves: r < v is the
\* remainder so far; the digit is estimated from the two highest limbs,
\* which takes it at most 2 too large
Digit(r, v) == DigitFrom(r, v, Min(Base - 1, (r[4] * Base + r[3]) \div v[4]))

\* the first digit: u and v have 56 bits, so it is 0 or 1
First(u, v) ==
    IF LimbsLess(u, v) THEN [r |-> u, q |-> 0]
    ELSE [r |-> SubSeq(Carry(<<u[1] - v[1], u[2] - v[2], u[3] - v[3], u[4] - v[4]>>), 1, 4),
          q |-> 1]

\* the digits found with the next digit put before them, and the
\* remainder it leaves
NextDigit(d, q) == [r |-> d.r, q |-> <<d.q>> \o q]

Digits(s, v) == NextDigit(Digit(s.r, v), s.q)

\* floor(u * 2^56 / v), least significant limb first, and the remainder:
\* the first digit, then four more
Quotient(u, v) ==
    [[v |-> NextDigit(First(u, v), <<>>)]
     EXCEPT !.v = Digits(@, v), !.v = Digits(@, v), !.v = Digits(@, v),
            !.v = Digits(@, v)].v

Rounded(s, E, Q) == Round(s, Q.q, E, ~IsZeroLimbs(Q.r))

\* (-1)^s * (u.m / v.m) * 2^E
Ratio(s, u, v, E) == Rounded(s, E + v.k - u.k - 56, Quotient(u.m, v.m))

\* x / y
Division(x, y) ==
    IF IsNaN(x) \/ IsNaN(y) THEN NaN
    ELSE IF IsInf(x) THEN (IF IsInf(y) THEN NaN ELSE Inf((x.s + y.s) % 2))
    ELSE IF IsInf(y) THEN Zero((x.s + y.s) % 2)
    ELSE IF IsZero(y) THEN (IF IsZero(x) THEN NaN ELSE Inf((x.s + y.s) % 2))
    ELSE IF IsZero(x) THEN Zero((x.s + y.s) % 2)
    ELSE Ratio((x.s + y.s) % 2, Normal(x.m), Normal(y.m), x.e - y.e)

\* ---- square root

\* N - T, five limbs
Less5(N, T) ==
    SubSeq(Carry(<<N[1] - T[1], N[2] - T[2], N[3] - T[3], N[4] - T[4], N[5] - T[5]>>), 1, 5)

\* N < T, five limbs
Below5(N, T) ==
    IF N[5] # T[5] THEN N[5] < T[5]
    ELSE IF N[4] # T[4] THEN N[4] < T[4]
    ELSE IF N[3] # T[3] THEN N[3] < T[3]
    ELSE IF N[2] # T[2] THEN N[2] < T[2]
    ELSE N[1] < T[1]

\* c * N + a, five limbs, for c in {2, 4} and a < c
Times5(N, c, a) ==
    SubSeq(Carry(<<c * N[1] + a, c * N[2], c * N[3], c * N[4], c * N[5]>>), 1, 5)

\* one bit of the root: rem is the remainder with the next two bits of the
\* number brought in, trial is 4 * root + 1, n the bits to come after it
RootBit(rem, root, trial, n) ==
    IF Below5(rem, trial) THEN [rem |-> rem, root |-> Times5(root, 2, 0), n |-> n]
    ELSE [rem |-> Less5(rem, trial), root |-> Times5(root, 2, 1), n |-> n]

\* the next bit of the root of the number N, d.n bits of it to come: the
\* root so far and the remainder
RootStep(d, N) ==
    RootBit(Times5(d.rem, 4, 2 * BitAt(N, 2 * d.n - 1) + BitAt(N, 2 * d.n - 2)),
            d.root, Times5(d.root, 4, 1), d.n - 1)

\* eight bits of the root
RootByte(d, N) ==
    [[v |-> d]
     EXCEPT !.v = Call("RootStep", @, N), !.v = Call("RootStep", @, N),
            !.v = Call("RootStep", @, N), !.v = Call("RootStep", @, N),
            !.v = Call("RootStep", @, N), !.v = Call("RootStep", @, N),
            !.v = Call("RootStep", @, N), !.v = Call("RootStep", @, N)].v

\* the root of the number N of 112 bits, bit by bit from the highest
RootBits(N) ==
    [[v |-> [rem |-> <<0, 0, 0, 0, 0>>, root |-> <<0, 0, 0, 0, 0>>, n |-> 56]]
     EXCEPT !.v = RootByte(@, N), !.v = RootByte(@, N), !.v = RootByte(@, N),
            !.v = RootByte(@, N), !.v = RootByte(@, N), !.v = RootByte(@, N),
            !.v = RootByte(@, N)].v

RootRounded(E, d) == Round(0, d.root, E, ~IsZeroLimbs(d.rem))

\* the root of M * 2^E for an M of 53 bits: of M * 2^58 or M * 2^59, of
\* 112 bits at most, the one that leaves an even exponent
RootOf(M, E) ==
    RootRounded((E - 58 - (E % 2)) \div 2,
                RootBits(Shift8(Wide(M), 0 - 58 - (E % 2))))

RootNormal(x, n) == RootOf(Shift4(x.m, n - 53), x.e + n - 53)

\* Math.sqrt(x)
SquareRoot(x) ==
    IF IsNaN(x) THEN NaN
    ELSE IF IsZero(x) THEN x
    ELSE IF x.s = 1 THEN NaN
    ELSE IF IsInf(x) THEN x
    ELSE RootNormal(x, BitLen(x.m))

\* ---- integers

\* the double of the integer k
FromInt(n) ==
    IF n < 0
    THEN Round(1, <<(0 - n) % Base, ((0 - n) \div Base) % Base, (0 - n) \div (Base * Base), 0>>, 0, FALSE)
    ELSE Round(0, <<n % Base, (n \div Base) % Base, n \div (Base * Base), 0>>, 0, FALSE)

IntOf(s, M) == (1 - 2 * s) * (M[1] + Base * M[2] + Base * Base * M[3])

\* (int) x: x with its fraction dropped, for |x| < 2^31
ToInt(x) == IF x.e < -52 THEN 0 ELSE IntOf(x.s, Shift4(x.m, 0 - x.e))

\* n / 10^p: the double a decimal literal or a parsed input is
Decimal(n, p) == Division(FromInt(n), FromInt(10 ^ p))

Dec(n, p) == Call("Dec", n, p)

\* ---- the operations, applied

\* x + y
Add(x, y) == Call("Add", x, y)

\* x - y
Sub(x, y) == Call("Add", x, Neg(y))

\* x * y
Mul(x, y) == Call("Mul", x, y)

\* x / y
Div(x, y) == Call("Div", x, y)

\* Math.sqrt(x)
Sqrt(x) == Call("Sqrt", x, x)

\* ---- the high word of a double

\* the high word of |x|: the exponent field and the 20 high bits of the
\* fraction (__HI(x) & 0x7fffffff)
HiWord(x) ==
    IF x.e = 1024 THEN 2047 * 1048576 + (IF x.m[4] # 0 THEN 524288 ELSE 0)
    ELSE IF x.m[4] >= 1024
         THEN (x.e + 1075) * 1048576 + (x.m[4] - 1024) * 1024 + (x.m[3] \div 16)
    ELSE x.m[4] * 1024 + (x.m[3] \div 16)

\* the positive normal double whose high word is h and whose low word is 0
OfHiWord(h) ==
    [s |-> 0, e |-> (h \div 1048576) - 1075,
     m |-> <<0, 0, (h % 1024) * 16, 1024 + ((h % 1048576) \div 1024)>>]

\* x * 2^k, for a normal x and a normal result (__HI(x) += k << 20)
Scale(x, n) == [x EXCEPT !.e = x.e + n]

\* ---- Math.exp, Math.log, Math.sin, Math.cos (V8: fdlibm)

One == [s |-> 0, e |-> -52, m |-> <<0, 0, 0, 1024>>]

Two == [s |-> 0, e |-> -51, m |-> <<0, 0, 0, 1024>>]

Half == [s |-> 0, e |-> -53, m |-> <<0, 0, 0, 1024>>]

\* Math.E
E == [s |-> 0, e |-> -51, m |-> <<5993, 11345, 12456, 1391>>]

\* 2^-1000
TwoM1000 == [s |-> 0, e |-> -1052, m |-> <<0, 0, 0, 1024>>]

\* 2^54
Two54 == [s |-> 0, e |-> 2, m |-> <<0, 0, 0, 1024>>]

\* 0.33333333333333333
Third == [s |-> 0, e |-> -54, m |-> <<5461, 5461, 5461, 1365>>]

\* 0.28125
Q28125 == [s |-> 0, e |-> -54, m |-> <<0, 0, 0, 1152>>]

\* Math.PI
PI == [s |-> 0, e |-> -51, m |-> <<11544, 4368, 8117, 1608>>]

\* ln2HI = 0.6931471803691238
Ln2Hi == [s |-> 0, e |-> -53, m |-> <<0, 15232, 9263, 1419>>]

\* ln2LO = 1.9082149292705877e-10
Ln2Lo == [s |-> 0, e |-> -85, m |-> <<15478, 5604, 7923, 1678>>]

\* invln2 = 1.4426950408889634
InvLn2 == [s |-> 0, e |-> -52, m |-> <<766, 5294, 5238, 1477>>]

\* P1 = 0.16666666666666602
P1 == [s |-> 0, e |-> -55, m |-> <<5438, 5461, 5461, 1365>>]

\* P2 = -0.0027777777777015593
P2 == [s |-> 1, e |-> -61, m |-> <<15763, 6906, 5825, 1456>>]

\* P3 = 6.613756321437934e-05
P3 == [s |-> 0, e |-> -66, m |-> <<7724, 15511, 9898, 1109>>]

\* P4 = -1.6533902205465252e-06
P4 == [s |-> 1, e |-> -72, m |-> <<11249, 5961, 5148, 1775>>]

\* P5 = 4.1381367970572385e-08
P5 == [s |-> 0, e |-> -77, m |-> <<9424, 2810, 13975, 1421>>]

\* o_threshold = 709.782712893384
OThreshold == [s |-> 0, e |-> -43, m |-> <<14831, 15336, 9263, 1419>>]

\* u_threshold = -745.1332191019411
UThreshold == [s |-> 1, e |-> -43, m |-> <<12369, 5300, 4365, 1490>>]

\* Lg1 = 0.6666666666666735
Lg1 == [s |-> 0, e |-> -53, m |-> <<5523, 5461, 5461, 1365>>]

\* Lg2 = 0.3999999999940942
Lg2 == [s |-> 0, e |-> -54, m |-> <<14852, 9823, 6553, 1638>>]

\* Lg3 = 0.2857142874366239
Lg3 == [s |-> 0, e |-> -54, m |-> <<4953, 4234, 4681, 1170>>]

\* Lg4 = 0.22222198432149784
Lg4 == [s |-> 0, e |-> -55, m |-> <<14511, 13881, 7249, 1820>>]

\* Lg5 = 0.1818357216161805
Lg5 == [s |-> 0, e |-> -55, m |-> <<990, 6956, 9801, 1489>>]

\* Lg6 = 0.15313837699209373
Lg6 == [s |-> 0, e |-> -55, m |-> <<1695, 483, 8349, 1254>>]

\* Lg7 = 0.14798198605116586
Lg7 == [s |-> 0, e |-> -55, m |-> <<4676, 15609, 4397, 1212>>]

\* S1 = -0.16666666666666632
S1 == [s |-> 1, e |-> -55, m |-> <<5449, 5461, 5461, 1365>>]

\* S2 = 0.00833333333332249
S2 == [s |-> 0, e |-> -59, m |-> <<14502, 1091, 4369, 1092>>]

\* S3 = -0.0001984126982985795
S3 == [s |-> 1, e |-> -65, m |-> <<8661, 9989, 6657, 1664>>]

\* S4 = 2.7557313707070068e-06
S4 == [s |-> 0, e |-> -71, m |-> <<15997, 7879, 7733, 1479>>]

\* S5 = -2.5050760253406863e-08
S5 == [s |-> 1, e |-> -78, m |-> <<7403, 10414, 7784, 1721>>]

\* S6 = 1.58969099521155e-10
S6 == [s |-> 0, e |-> -85, m |-> <<5500, 11071, 5029, 1398>>]

\* C1 = 0.0416666666666666
Cos1 == [s |-> 0, e |-> -57, m |-> <<5452, 5461, 5461, 1365>>]

\* C2 = -0.001388888888887411
Cos2 == [s |-> 1, e |-> -62, m |-> <<4471, 6917, 5825, 1456>>]

\* C3 = 2.480158728947673e-05
Cos3 == [s |-> 0, e |-> -68, m |-> <<5520, 10028, 6657, 1664>>]

\* C4 = -2.7557314351390663e-07
Cos4 == [s |-> 1, e |-> -74, m |-> <<4781, 625, 9464, 1183>>]

\* C5 = 2.087572321298175e-09
Cos5 == [s |-> 0, e |-> -81, m |-> <<12740, 14034, 10731, 1147>>]

\* C6 = -1.1359647557788195e-11
Cos6 == [s |-> 1, e |-> -89, m |-> <<14548, 14880, 11931, 1598>>]

\* invpio2 = 0.6366197723675814
InvPio2 == [s |-> 0, e |-> -53, m |-> <<2179, 14119, 13062, 1303>>]

\* pio2_1 = 1.5707963267341256
Pio2_1 == [s |-> 0, e |-> -52, m |-> <<0, 4352, 8117, 1608>>]

\* pio2_1t = 6.077100506506192e-11
Pio2_1t == [s |-> 0, e |-> -86, m |-> <<9009, 10633, 1553, 1069>>]

\* pio2_2 = 6.077100506303966e-11
Pio2_2 == [s |-> 0, e |-> -86, m |-> <<0, 10624, 1553, 1069>>]

\* pio2_2t = 2.0222662487959506e-21
Pio2_2t == [s |-> 0, e |-> -121, m |-> <<12403, 14349, 6306, 1222>>]

\* pio2_3 = 2.0222662487111665e-21
Pio2_3 == [s |-> 0, e |-> -121, m |-> <<0, 14336, 6306, 1222>>]

\* pio2_3t = 8.4784276603689e-32
Pio2_3t == [s |-> 0, e |-> -156, m |-> <<2497, 5249, 14754, 1760>>]

NPio2Hw == <<1073291771, 1074340347, 1074977148, 1075388923, 1075800698, 1076025724, 1076231611, 1076437499, 1076643386, 1076849274, 1076971356, 1077074300, 1077177244, 1077280187, 1077383131, 1077486075, 1077589019, 1077691962, 1077794906, 1077897850, 1077968460, 1078019932, 1078071404, 1078122876, 1078174348, 1078225820, 1078277292, 1078328763, 1078380235, 1078431707, 1078483179, 1078534651>>

\* a local variable of a computation assigned: name = val
Assign(l, name, val) == [l EXCEPT ![name] = val]

\* -- exp (e_exp.c)

\* P1 + t * (P2 + t * (P3 + t * (P4 + t * P5)))
ExpPoly(t) ==
    [[v |-> P5]
     EXCEPT !.v = Add(P4, Mul(t, @)), !.v = Add(P3, Mul(t, @)),
            !.v = Add(P2, Mul(t, @)), !.v = Add(P1, Mul(t, @))].v

\* y * 2^k
ExpScale(y, ke) ==
    IF ke >= -1021 THEN Scale(y, ke) ELSE Mul(Scale(y, ke + 1000), TwoM1000)

\* t = x * x; c = x - t * (P1 + ...);
\* k = 0: y = 1 - ((x * c) / (c - 2) - x)
\* else:  y = 1 - ((lo - (x * c) / (2 - c)) - hi)
ExpReduced(l) ==
    [[v |-> l]
     EXCEPT !.v = Assign(@, "t", Mul(@.x, @.x)),
            !.v = Assign(@, "c", Mul(@.t, ExpPoly(@.t))),
            !.v = Assign(@, "c", Sub(@.x, @.c)),
            !.v = Assign(@, "y", Mul(@.x, @.c)),
            !.v = Assign(@, "t", IF @.k = 0 THEN Sub(@.c, Two) ELSE Sub(Two, @.c)),
            !.v = Assign(@, "y", Div(@.y, @.t)),
            !.v = Assign(@, "y", IF @.k = 0 THEN Sub(@.y, @.x) ELSE Sub(@.lo, @.y)),
            !.v = Assign(@, "y", IF @.k = 0 THEN @.y ELSE Sub(@.y, @.hi)),
            !.v = Assign(@, "y", Sub(One, @.y)),
            !.v = Assign(@, "y", IF @.k = 0 THEN @.y ELSE ExpScale(@.y, @.k))].v.y

\* x = hi - lo
ExpParts(ke, hi, lo) ==
    ExpReduced([k |-> ke, hi |-> hi, lo |-> lo, x |-> Sub(hi, lo),
                t |-> One, c |-> One, y |-> One])

\* k = (int)(invln2 * x + halF[xsb])
ExpK(x) == ToInt(Add(Mul(InvLn2, x), IF x.s = 0 THEN Half ELSE Neg(Half)))

\* t = k; hi = x - t * ln2HI; lo = t * ln2LO
ExpFar(x, ke) ==
    ExpParts(ke, Sub(x, Mul(FromInt(ke), Ln2Hi)), Mul(FromInt(ke), Ln2Lo))

ExpAt(x, hx) ==
    IF hx > 1071001154
    THEN (IF hx < 1072734898
          THEN (IF x = One THEN E
                ELSE ExpParts(1 - 2 * x.s,
                              Sub(x, IF x.s = 0 THEN Ln2Hi ELSE Neg(Ln2Hi)),
                              IF x.s = 0 THEN Ln2Lo ELSE Neg(Ln2Lo)))
          ELSE ExpFar(x, ExpK(x)))
    ELSE IF hx < 1043333120 THEN Add(One, x)
    ELSE ExpReduced([k |-> 0, hi |-> x, lo |-> x, x |-> x,
                     t |-> One, c |-> One, y |-> One])

\* Math.exp(x)
MathExp(x) ==
    IF IsNaN(x) THEN NaN
    ELSE IF IsInf(x) THEN (IF x.s = 0 THEN x ELSE Zero(0))
    ELSE IF Gt(x, OThreshold) THEN Inf(0)
    ELSE IF Lt(x, UThreshold) THEN Zero(0)
    ELSE ExpAt(x, HiWord(x))

\* -- log (e_log.c)

\* t1 = w * (Lg2 + w * (Lg4 + w * Lg6))
LogT1(w) ==
    [[v |-> Lg6]
     EXCEPT !.v = Add(Lg4, Mul(w, @)), !.v = Add(Lg2, Mul(w, @)),
            !.v = Mul(w, @)].v

\* t2 = z * (Lg1 + w * (Lg3 + w * (Lg5 + w * Lg7)))
LogT2(z, w) ==
    [[v |-> Lg7]
     EXCEPT !.v = Add(Lg5, Mul(w, @)), !.v = Add(Lg3, Mul(w, @)),
            !.v = Add(Lg1, Mul(w, @)), !.v = Mul(z, @)].v

\* hfsq = 0.5 * f * f;
\* k = 0: f - (hfsq - s * (hfsq + R))
\* else:  dk * ln2_hi - ((hfsq - (s * (hfsq + R) + dk * ln2_lo)) - f)
LogHf(l) ==
    [[v |-> l]
     EXCEPT !.v = Assign(@, "hfsq", Mul(Mul(Half, @.f), @.f)),
            !.v = Assign(@, "y", Add(@.hfsq, @.R)),
            !.v = Assign(@, "y", Mul(@.s, @.y)),
            !.v = Assign(@, "y", IF @.k = 0 THEN @.y ELSE Add(@.y, Mul(@.dk, Ln2Lo))),
            !.v = Assign(@, "y", Sub(@.hfsq, @.y)),
            !.v = Assign(@, "y", IF @.k = 0 THEN Sub(@.f, @.y) ELSE Sub(@.y, @.f)),
            !.v = Assign(@, "y", IF @.k = 0 THEN @.y
                                 ELSE Sub(Mul(@.dk, Ln2Hi), @.y))].v.y

\* k = 0: f - s * (f - R)
\* else:  dk * ln2_hi - ((s * (f - R) - dk * ln2_lo) - f)
LogR(l) ==
    [[v |-> l]
     EXCEPT !.v = Assign(@, "y", Sub(@.f, @.R)),
            !.v = Assign(@, "y", Mul(@.s, @.y)),
            !.v = Assign(@, "y", IF @.k = 0 THEN Sub(@.f, @.y)
                                 ELSE Sub(@.y, Mul(@.dk, Ln2Lo))),
            !.v = Assign(@, "y", IF @.k = 0 THEN @.y ELSE Sub(@.y, @.f)),
            !.v = Assign(@, "y", IF @.k = 0 THEN @.y
                                 ELSE Sub(Mul(@.dk, Ln2Hi), @.y))].v.y

\* s = f / (2 + f); z = s * s; w = z * z; R = t2 + t1
LogS(l) ==
    [[v |-> l]
     EXCEPT !.v = Assign(@, "s", Add(Two, @.f)),
            !.v = Assign(@, "s", Div(@.f, @.s)),
            !.v = Assign(@, "z", Mul(@.s, @.s)),
            !.v = Assign(@, "w", Mul(@.z, @.z)),
            !.v = Assign(@, "y", LogT1(@.w)),
            !.v = Assign(@, "R", LogT2(@.z, @.w)),
            !.v = Assign(@, "R", Add(@.R, @.y)),
            !.v = Assign(@, "y", IF @.hx >= 398458 /\ @.hx <= 440401
                                 THEN LogHf(@) ELSE LogR(@))].v.y

\* |f| < 2^-20: R = f * f * (0.5 - 0.33333333333333333 * f);
\* k = 0: f - R; else: dk * ln2_hi - ((R - dk * ln2_lo) - f)
LogSmall(l) ==
    [[v |-> l]
     EXCEPT !.v = Assign(@, "R", Sub(Half, Mul(Third, @.f))),
            !.v = Assign(@, "R", Mul(Mul(@.f, @.f), @.R)),
            !.v = Assign(@, "y", IF @.k = 0 THEN Sub(@.f, @.R)
                                 ELSE Sub(@.R, Mul(@.dk, Ln2Lo))),
            !.v = Assign(@, "y", IF @.k = 0 THEN @.y ELSE Sub(@.y, @.f)),
            !.v = Assign(@, "y", IF @.k = 0 THEN @.y
                                 ELSE Sub(Mul(@.dk, Ln2Hi), @.y))].v.y

LogF(l) ==
    IF (l.hx + 2) % 1048576 < 3
    THEN (IF IsZero(l.f)
          THEN (IF l.k = 0 THEN Zero(0)
                ELSE Add(Mul(l.dk, Ln2Hi), Mul(l.dk, Ln2Lo)))
          ELSE LogSmall(l))
    ELSE LogS(l)

\* f = x - 1; dk = k
LogFrom(x, ke, hx) ==
    LogF([f |-> Sub(x, One), k |-> ke, hx |-> hx, dk |-> FromInt(ke),
          s |-> One, z |-> One, w |-> One, R |-> One, hfsq |-> One, y |-> One])

\* x brought into [sqrt(2) / 2, sqrt(2)): hx is the 20 high bits of its
\* fraction
LogBits(x, ke, hx) ==
    IF hx >= 434332 THEN LogFrom([x EXCEPT !.e = -53], ke + 1, hx)
    ELSE LogFrom([x EXCEPT !.e = -52], ke, hx)

LogNormal(x, ke) == LogBits(x, ke + x.e + 52, HiWord(x) % 1048576)

\* Math.log(x)
MathLog(x) ==
    IF IsNaN(x) THEN NaN
    ELSE IF IsZero(x) THEN Inf(1)
    ELSE IF x.s = 1 THEN NaN
    ELSE IF IsInf(x) THEN x
    ELSE IF x.m[4] < 1024 THEN LogNormal(Mul(x, Two54), -54)
    ELSE LogNormal(x, 0)

\* -- sin, cos (k_sin.c, k_cos.c, e_rem_pio2.c, s_sin.c, s_cos.c)

\* r = S2 + z * (S3 + z * (S4 + z * (S5 + z * S6)))
KernelSinR(z) ==
    [[v |-> S6]
     EXCEPT !.v = Add(S5, Mul(z, @)), !.v = Add(S4, Mul(z, @)),
            !.v = Add(S3, Mul(z, @)), !.v = Add(S2, Mul(z, @))].v

\* z = x * x; v = z * x; r = S2 + ...;
\* iy = 0: x + v * (S1 + z * r)
\* else:   x - ((z * (half * y - v * r) - y) - v * S1)
KernelSinZ(l) ==
    [[v |-> l]
     EXCEPT !.v = Assign(@, "z", Mul(@.x, @.x)),
            !.v = Assign(@, "v", Mul(@.z, @.x)),
            !.v = Assign(@, "r", KernelSinR(@.z)),
            !.v = Assign(@, "t", IF @.iy = 0 THEN Mul(@.z, @.r) ELSE Mul(@.v, @.r)),
            !.v = Assign(@, "t", IF @.iy = 0 THEN Add(S1, @.t)
                                 ELSE Sub(Mul(Half, @.y), @.t)),
            !.v = Assign(@, "t", IF @.iy = 0 THEN Mul(@.v, @.t) ELSE Mul(@.z, @.t)),
            !.v = Assign(@, "t", IF @.iy = 0 THEN @.t ELSE Sub(@.t, @.y)),
            !.v = Assign(@, "t", IF @.iy = 0 THEN @.t ELSE Sub(@.t, Mul(@.v, S1))),
            !.v = Assign(@, "t", IF @.iy = 0 THEN Add(@.x, @.t)
                                 ELSE Sub(@.x, @.t))].v.t

\* __kernel_sin(x, y, iy)
KernelSin(x, y, iy) ==
    IF HiWord(x) < 1044381696 THEN x
    ELSE KernelSinZ([x |-> x, y |-> y, iy |-> iy,
                     z |-> One, v |-> One, r |-> One, t |-> One])

\* r = z * (Cos1 + z * (Cos2 + z * (Cos3 + z * (Cos4 + z * (Cos5 + z * Cos6)))))
KernelCosR(z) ==
    [[v |-> Cos6]
     EXCEPT !.v = Add(Cos5, Mul(z, @)), !.v = Add(Cos4, Mul(z, @)),
            !.v = Add(Cos3, Mul(z, @)), !.v = Add(Cos2, Mul(z, @)),
            !.v = Add(Cos1, Mul(z, @)), !.v = Mul(z, @)].v

\* z = x * x; r = z * (Cos1 + ...);
\* ix < 1070805811: one - (0.5 * z - (z * r - x * y))
\* else: qx = 0.28125 or x / 4; hz = 0.5 * z - qx; a = one - qx;
\*       a - (hz - (z * r - x * y))
KernelCosZ(l) ==
    [[v |-> l]
     EXCEPT !.v = Assign(@, "z", Mul(@.x, @.x)),
            !.v = Assign(@, "r", KernelCosR(@.z)),
            !.v = Assign(@, "t", Mul(@.z, @.r)),
            !.v = Assign(@, "t", Sub(@.t, Mul(@.x, @.y))),
            !.v = Assign(@, "qx", IF @.ix < 1070805811 THEN Zero(0)
                                  ELSE IF @.ix > 1072234496 THEN Q28125
                                  ELSE OfHiWord(@.ix - 2097152)),
            !.v = Assign(@, "hz", Mul(Half, @.z)),
            !.v = Assign(@, "hz", IF @.ix < 1070805811 THEN @.hz
                                  ELSE Sub(@.hz, @.qx)),
            !.v = Assign(@, "a", IF @.ix < 1070805811 THEN One
                                 ELSE Sub(One, @.qx)),
            !.v = Assign(@, "t", Sub(@.hz, @.t)),
            !.v = Assign(@, "t", Sub(@.a, @.t))].v.t

\* __kernel_cos(x, y)
KernelCos(x, y) ==
    IF HiWord(x) < 1044381696 THEN One
    ELSE KernelCosZ([x |-> x, y |-> y, ix |-> HiWord(x), z |-> One,
                     r |-> One, t |-> One, qx |-> One, hz |-> One, a |-> One])

\* c for a positive argument, -c for a negative one
Signed(c, n) == IF n < 0 THEN Neg(c) ELSE c

\* y[0] = z - t; y[1] = (z - y[0]) - t
RemTail(z, t, n) ==
    [[v |-> [n |-> n, y0 |-> Sub(z, t), y1 |-> z]]
     EXCEPT !.v = Assign(@, "y1", Sub(@.y1, @.y0)),
            !.v = Assign(@, "y1", Sub(@.y1, t))].v

\* |x| < 3 pi / 4: n = 1 or -1, z = x - n * pio2_1
RemNear(z, ix, n) ==
    IF ix # 1073291771 THEN RemTail(z, Signed(Pio2_1t, n), n)
    ELSE RemTail(Sub(z, Signed(Pio2_2, n)), Signed(Pio2_2t, n), n)

\* the exponent field of y
ExpField(y) == HiWord(y) \div 1048576

\* i = j - ((__HI(y[0]) >> 20) & 2047)
RemLost(l) == (l.ix \div 1048576) - ExpField(l.y0)

\* t = r; w = fn * pio2; r = t - w; w = fn * pio2t - ((t - r) - w);
\* y[0] = r - w
RemAgain(l, pio2, pio2t) ==
    [[v |-> l]
     EXCEPT !.v = Assign(@, "t", @.r),
            !.v = Assign(@, "w", Mul(@.fn, pio2)),
            !.v = Assign(@, "r", Sub(@.t, @.w)),
            !.v = Assign(@, "t", Sub(@.t, @.r)),
            !.v = Assign(@, "t", Sub(@.t, @.w)),
            !.v = Assign(@, "w", Sub(Mul(@.fn, pio2t), @.t)),
            !.v = Assign(@, "y0", Sub(@.r, @.w))].v

\* the second and the third iteration, for the arguments that lose more
\* than 16 and more than 49 bits
RemSecond(l) ==
    IF l.n < 32 /\ l.ix # NPio2Hw[l.n] THEN l
    ELSE IF RemLost(l) > 16 THEN RemAgain(l, Pio2_2, Pio2_2t)
    ELSE [l EXCEPT !.n2 = FALSE]

RemThird(l) ==
    IF (l.n < 32 /\ l.ix # NPio2Hw[l.n]) \/ ~l.n2 THEN l
    ELSE IF RemLost(l) > 49 THEN RemAgain(l, Pio2_3, Pio2_3t)
    ELSE l

\* y[1] = (r - y[0]) - w; a negative x negates n, y[0] and y[1]
RemDone(l) ==
    IF l.x.s = 1 THEN [n |-> 0 - l.n, y0 |-> Neg(l.y0), y1 |-> Neg(l.y1)]
    ELSE [n |-> l.n, y0 |-> l.y0, y1 |-> l.y1]

\* |x| <= 2^19 * (pi / 2): fn = n; r = t - fn * pio2_1; w = fn * pio2_1t;
\* y[0] = r - w
RemMedium(x, ix, n) ==
    [[v |-> [x |-> x, ix |-> ix, n |-> n, n2 |-> TRUE, fn |-> FromInt(n),
             t |-> Fabs(x), r |-> One, w |-> One, y0 |-> One, y1 |-> One]]
     EXCEPT !.v = Assign(@, "r", Sub(@.t, Mul(@.fn, Pio2_1))),
            !.v = Assign(@, "w", Mul(@.fn, Pio2_1t)),
            !.v = Assign(@, "y0", Sub(@.r, @.w)),
            !.v = RemSecond(@),
            !.v = RemThird(@),
            !.v = Assign(@, "y1", Sub(@.r, @.y0)),
            !.v = Assign(@, "y1", Sub(@.y1, @.w)),
            !.v = RemDone(@)].v

RemAt(x, ix) ==
    IF ix <= 1072243195 THEN [n |-> 0, y0 |-> x, y1 |-> Zero(0)]
    ELSE IF ix < 1073928572
         THEN RemNear(Sub(x, Signed(Pio2_1, 1 - 2 * x.s)), ix, 1 - 2 * x.s)
    ELSE RemMedium(x, ix, ToInt(Add(Mul(Fabs(x), InvPio2), Half)))

\* __ieee754_rem_pio2(x, y): n, y[0], y[1]
RemPio2(x) == RemAt(x, HiWord(x))

SinOf(q) ==
    CASE q.n % 4 = 0 -> KernelSin(q.y0, q.y1, 1)
      [] q.n % 4 = 1 -> KernelCos(q.y0, q.y1)
      [] q.n % 4 = 2 -> Neg(KernelSin(q.y0, q.y1, 1))
      [] OTHER -> Neg(KernelCos(q.y0, q.y1))

CosOf(q) ==
    CASE q.n % 4 = 0 -> KernelCos(q.y0, q.y1)
      [] q.n % 4 = 1 -> Neg(KernelSin(q.y0, q.y1, 1))
      [] q.n % 4 = 2 -> Neg(KernelCos(q.y0, q.y1))
      [] OTHER -> KernelSin(q.y0, q.y1, 1)

\* the arguments the program has are within 2 pi; beyond 2^19 * (pi / 2)
\* the reduction of e_rem_pio2.c is another one, which is not modelled
InReach(x) == HiWord(x) <= 1094263291

\* Math.sin(x)
MathSin(x) ==
    IF HiWord(x) <= 1072243195 THEN KernelSin(x, Zero(0), 0)
    ELSE IF ~InReach(x) THEN NaN
    ELSE SinOf(RemPio2(x))

\* Math.cos(x)
MathCos(x) ==
    IF HiWord(x) <= 1072243195 THEN KernelCos(x, Zero(0))
    ELSE IF ~InReach(x) THEN NaN
    ELSE CosOf(RemPio2(x))

\* ---- the functions, applied

Exp(x) == Call("Math.exp", x, x)

Log(x) == Call("Math.log", x, x)

Sin(x) == Call("Math.sin", x, x)

Cos(x) == Call("Math.cos", x, x)

\* --------------------------------------------------------- program values

\* stepMH: sigma = 1.5
MHSigma == Dec(15, 1)

\* 0.1, 0.01 and 3: the doubles 0x3FB999999999999A, 0x3F847AE147AE147B and
\* 0x4008000000000000
Tenth == [s |-> 0, e |-> -56, m |-> <<6554, 9830, 6553, 1638>>]

Hundredth == [s |-> 0, e |-> -59, m |-> <<5243, 7864, 11796, 1310>>]

Three == [s |-> 0, e |-> -51, m |-> <<0, 0, 0, 1536>>]

\* the seed x: 0.1, y: 0.1
SeedX == Tenth

SeedY == Tenth

\* ---------------------------------------------------------------- targets

\* x ** 2, as the product x * x: the square correctly rounded.  An engine
\* that evaluates ** through its pow routine may differ from it in the last
\* bit.
Sq(a) == Mul(a, a)

Five == FromInt(5)

TenF == FromInt(10)

\* 1.5, 2.5
OneAndHalf == Dec(15, 1)

TwoAndHalf == Dec(25, 1)

\* the constant 1e-9 of the bimodal density and of the donut's gradient
Floor == Dec(1, 9)

\* const PI2 = Math.PI * 2
PI2 == Mul(PI, Two)

\* gaussian: -0.5 * (x * x + y * y)
Gaussian(x, y) ==
    [[v |-> Mul(x, x)] EXCEPT !.v = Add(@, Mul(y, y)), !.v = Mul(Neg(Half), @)].v

\* Math.exp(-((x + c) ** 2 + (y + c) ** 2) * 2): c is 1.5 for the mode at
\* (-1.5, -1.5), and -1.5 for the mode at (1.5, 1.5), where the program has
\* x - 1.5
ModeExp(x, y, c) ==
    [[v |-> Sq(Add(x, c))]
     EXCEPT !.v = Add(@, Sq(Add(y, c))), !.v = Mul(Neg(@), Two), !.v = Exp(@)].v

\* bimodal: Math.log(p1 + p2 + 1e-9)
Bimodal(x, y) ==
    [[v |-> ModeExp(x, y, OneAndHalf)]
     EXCEPT !.v = Add(@, ModeExp(x, y, Neg(OneAndHalf))), !.v = Add(@, Floor),
            !.v = Log(@)].v

\* donut: r = Math.sqrt(x * x + y * y); -2 * ((r - 2.5) ** 2)
Donut(x, y) ==
    [[v |-> Mul(x, x)]
     EXCEPT !.v = Add(@, Mul(y, y)), !.v = Sqrt(@), !.v = Sub(@, TwoAndHalf),
            !.v = Sq(@), !.v = Mul(FromInt(-2), @)].v

\* y - x * x
BananaTerm(x, y) == Sub(y, Mul(x, x))

\* banana: -((a - x) ** 2 + b * (y - x * x) ** 2) / 10, a = 1, b = 5
Banana(x, y) ==
    [[v |-> BananaTerm(x, y)]
     EXCEPT !.v = Mul(Five, Sq(@)), !.v = Add(Sq(Sub(One, x)), @),
            !.v = Div(Neg(@), TenF)].v

LOG_PROBS(t, x, y) ==
    CASE t = "gaussian" -> Gaussian(x, y)
      [] t = "bimodal" -> Bimodal(x, y)
      [] t = "donut" -> Donut(x, y)
      [] t = "banana" -> Banana(x, y)

\* (e1 * -4 * (v + 1.5) + e2 * -4 * (v - 1.5)) / sum
BimodalPull(v, l) ==
    [[v |-> Mul(Mul(l.e1, FromInt(-4)), Add(v, OneAndHalf))]
     EXCEPT !.v = Add(@, Mul(Mul(l.e2, FromInt(-4)), Sub(v, OneAndHalf))),
            !.v = Div(@, l.sum)].v

\* e1, e2 the two modes; sum = e1 + e2 + 1e-9
BimodalGrad(x, y) ==
    [[v |-> [e1 |-> ModeExp(x, y, OneAndHalf), e2 |-> One, sum |-> One,
             dx |-> One, dy |-> One]]
     EXCEPT !.v = Assign(@, "e2", ModeExp(x, y, Neg(OneAndHalf))),
            !.v = Assign(@, "sum", Add(@.e1, @.e2)),
            !.v = Assign(@, "sum", Add(@.sum, Floor)),
            !.v = Assign(@, "dx", BimodalPull(x, @)),
            !.v = Assign(@, "dy", BimodalPull(y, @)),
            !.v = [dx |-> @.dx, dy |-> @.dy]].v

\* r = Math.sqrt(x * x + y * y) + 1e-9; term = -4 * (r - 2.5);
\* { dx: term * (x / r), dy: term * (y / r) }
DonutGrad(x, y) ==
    [[v |-> [r |-> Mul(x, x), term |-> One, dx |-> One, dy |-> One]]
     EXCEPT !.v = Assign(@, "r", Add(@.r, Mul(y, y))),
            !.v = Assign(@, "r", Sqrt(@.r)),
            !.v = Assign(@, "r", Add(@.r, Floor)),
            !.v = Assign(@, "term", Mul(FromInt(-4), Sub(@.r, TwoAndHalf))),
            !.v = Assign(@, "dx", Mul(@.term, Div(x, @.r))),
            !.v = Assign(@, "dy", Mul(@.term, Div(y, @.r))),
            !.v = [dx |-> @.dx, dy |-> @.dy]].v

\* term2 = y - x * x;
\* dx = -((2 * (x - 1) + 2 * b * term2 * (-2 * x)) / 10)
\* dy = -((2 * b * term2) / 10)
BananaGrad(x, y) ==
    [[v |-> [term2 |-> BananaTerm(x, y), dx |-> One, dy |-> One]]
     EXCEPT !.v = Assign(@, "dy", Mul(Mul(Two, Five), @.term2)),
            !.v = Assign(@, "dx", Mul(@.dy, Mul(FromInt(-2), x))),
            !.v = Assign(@, "dx", Add(Mul(Two, Sub(x, One)), @.dx)),
            !.v = Assign(@, "dx", Neg(Div(@.dx, TenF))),
            !.v = Assign(@, "dy", Neg(Div(@.dy, TenF))),
            !.v = [dx |-> @.dx, dy |-> @.dy]].v

GRADIENTS(t, x, y) ==
    CASE t = "gaussian" -> [dx |-> Neg(x), dy |-> Neg(y)]
      [] t = "bimodal" -> BimodalGrad(x, y)
      [] t = "donut" -> DonutGrad(x, y)
      [] t = "banana" -> BananaGrad(x, y)
\* ------------------------------------------------------ values of the state

AlgoType == {"rwm", "mh", "slice", "elliptical", "hitnrun", "hmc"}

TargetType == {"gaussian", "bimodal", "donut", "banana"}

\* currentPath: null
NoPath == <<>>

\* { x: 0.1, y: 0.1, samples: [], currentPath: null }
SeedState == [x |-> SeedX, y |-> SeedY, samples |-> <<>>, currentPath |-> NoPath]

\* useState<Params>({ stepSize: 0.5, stepsPerFrame: 1, hmcSteps: 10, hmcEpsilon: 0.1 })
InitParams ==
    [stepSize |-> Half, stepsPerFrame |-> 1, hmcSteps |-> 10,
     hmcEpsilon |-> Tenth]

\* the locals of a kernel call, before any is set; outL and outR count the
\* passes of the two step-out loops, brackets lists every [L, R] (or
\* [thetaMin, thetaMax]) the call went through
Loc0 == [lpCur |-> Zero(0), lpNew |-> Zero(0), u |-> Zero(0), logU |-> Zero(0),
         thr |-> Zero(0), dx |-> Zero(0), dy |-> Zero(0), L |-> Zero(0),
         R |-> Zero(0), loop |-> 0, outL |-> 0, outR |-> 0,
         theta |-> Zero(0), thetaMin |-> Zero(0), thetaMax |-> Zero(0),
         nuX |-> Zero(0), nuY |-> Zero(0), px |-> Zero(0), py |-> Zero(0),
         initialPx |-> Zero(0), initialPy |-> Zero(0),
         x |-> Zero(0), y |-> Zero(0), i |-> 0, gdx |-> Zero(0), gdy |-> Zero(0),
         dist |-> Zero(0), ratio |-> Zero(0), currentH |-> Zero(0),
         proposedH |-> Zero(0), trajectory |-> <<>>, brackets |-> <<>>]

Result0 == [x |-> Zero(0), y |-> Zero(0), accepted |-> FALSE, path |-> NoPath]

Last0 == [algo |-> "none", target |-> "none", prevX |-> Zero(0), prevY |-> Zero(0),
          prevPath |-> NoPath, hmcSteps |-> 0, returned |-> FALSE,
          result |-> Result0, loc |-> Loc0]

\* the closure of the animate function a render creates
Closure(run, a, t, p) == [isRunning |-> run, algo |-> a, target |-> t, params |-> p]

NoSnapshot == [params |-> InitParams, stateRef |-> SeedState]

Snapshot == [params |-> params, stateRef |-> stateRef]

\* the record of an operation op that is not a UI event, left being the UI
\* events the behaviour may still hold
Unlogged(op, left) ==
    [last |-> op, again |-> FALSE, moved |-> FALSE, valid |-> TRUE,
     before |-> NoSnapshot, left |-> left]

\* the UI events the behaviour may hold after one more
Spent == IF trace.left > 0 THEN trace.left - 1 ELSE 0

\* the record of the UI event op: again when a reset follows a reset, moved
\* when a reset or a change of selection met a chain that had left the seed
\* state (a reset that follows such a reset included)
Logged(op) ==
    [last |-> op, again |-> (op = "reset" /\ trace.last = "reset"),
     moved |-> (/\ op \in {"reset", "switch"}
                /\ \/ stateRef # SeedState
                   \/ op = "reset" /\ trace.last = "reset" /\ trace.moved),
     valid |-> TRUE, before |-> NoSnapshot, left |-> Spent]

LoggedParam(ok) ==
    [last |-> "setParams", again |-> FALSE, moved |-> FALSE, valid |-> ok,
     before |-> Snapshot, left |-> Spent]

Init ==
    /\ algo = "rwm"
    /\ target = "bimodal"
    /\ isRunning = FALSE
    /\ params = InitParams
    /\ stateRef = SeedState
    /\ animate = Closure(FALSE, "rwm", "bimodal", InitParams)
    /\ requestRef = FALSE
    /\ pc = "idle"
    /\ k = 0
    /\ emitted = <<>>
    /\ last = Last0
    /\ trace = Unlogged("mount", MaxInputs)

\* -------------------------------------------------------------- UI handlers

\* a reset that puts the position back and keeps the rest
resetPosition == [stateRef EXCEPT !.x = SeedX, !.y = SeedY]

\* reset(): stateRef.current = { x: 0.1, y: 0.1, samples: [], currentPath: null }
reset == SeedState

\* an animation effect that leaves the kernel and the target of the callback
\* as they were at the first render
StaleEffect(run, a, t, p) ==
    /\ animate' = [animate EXCEPT !.isRunning = run, !.params = p]
    /\ requestRef' = run

\* useEffect(..., [isRunning, algo, target, params]): the cleanup cancels the
\* pending frame, the effect requests one with the new render's animate
AnimationEffect(run, a, t, p) ==
    /\ animate' = Closure(run, a, t, p)
    /\ requestRef' = run

Quiet == UNCHANGED <<pc, k>>

\* the samples folded since the last reset, once the chain state is st: none
\* when st holds no sample
Since(st) == IF st.samples = <<>> THEN <<>> ELSE emitted

\* the Reset Chain button: onClick={reset}
ResetClick ==
    /\ pc = "idle"
    /\ stateRef' = reset
    /\ emitted' = Since(stateRef')
    /\ last' = Last0
    /\ trace' = Logged("reset")
    /\ UNCHANGED <<algo, target, isRunning, params, animate, requestRef>>
    /\ Quiet

\* SidebarItem: onClick={() => { setAlgo(id); reset(); }}, then the render
\* and its effects
SidebarItemClick(id) ==
    /\ pc = "idle"
    /\ algo' = id
    /\ stateRef' = reset
    /\ emitted' = Since(stateRef')
    /\ last' = Last0
    /\ IF id # algo
       THEN AnimationEffect(isRunning, id, target, params)
       ELSE UNCHANGED <<animate, requestRef>>
    /\ trace' = Logged("switch")
    /\ UNCHANGED <<target, isRunning, params>>
    /\ Quiet

\* the target select: onChange={(e) => setTarget(...)}, then the render and
\* its effects: useEffect(() => reset(), [target, reset]) and the animation
\* effect
TargetChange(t) ==
    /\ pc = "idle"
    /\ t # target
    /\ target' = t
    /\ stateRef' = reset
    /\ emitted' = Since(stateRef')
    /\ last' = Last0
    /\ AnimationEffect(isRunning, algo, t, params)
    /\ trace' = Logged("switch")
    /\ UNCHANGED <<algo, isRunning, params>>
    /\ Quiet

\* the Start / Stop button: onClick={() => setIsRunning(!isRunning)}
ToggleRunning ==
    /\ pc = "idle"
    /\ isRunning' = ~isRunning
    /\ AnimationEffect(~isRunning, algo, target, params)
    /\ trace' = Logged("other")
    /\ UNCHANGED <<algo, target, params, stateRef, emitted, last>>
    /\ Quiet

\* what the four parameter inputs accept: the sliders' min and max
ValidParam(field, v) ==
    CASE field = "stepSize"      -> Ge(v, Tenth) /\ Le(v, Three)
      [] field = "stepsPerFrame" -> v >= 1 /\ v <= 20
      [] field = "hmcSteps"      -> v >= 1 /\ v <= 50
      [] field = "hmcEpsilon"    -> Ge(v, Hundredth) /\ Le(v, Half)

\* a parameter input: onChange={(e) => setParams({...params, [field]: value})},
\* value being parseFloat(e.target.value) for stepSize and hmcEpsilon (a
\* double) and parseInt(e.target.value) for the other two (an integer),
\* then the render and its effects; the two HMC inputs exist only while the
\* kernel is hmc
ParamChange(field, v) ==
    /\ pc = "idle"
    /\ field \in {"hmcSteps", "hmcEpsilon"} => algo = "hmc"
    /\ params' = [params EXCEPT ![field] = v]
    /\ AnimationEffect(isRunning, algo, target, params')
    /\ trace' = LoggedParam(ValidParam(field, v))
    /\ UNCHANGED <<algo, target, isRunning, stateRef, emitted, last>>
    /\ Quiet

\* ------------------------------------------------------------------- loops

\* A loop of the source is the operator of one pass: pass i (from 0) of the
\* loop on the locals l, which is the loop's test and then its body, and
\* leaves l as it is when the loop has ended before pass i.  The passes are
\* applied one after the other, as many as the loop's cap allows.  A loop is
\* named by c.loop; c.current and c.qs are what its passes read besides the
\* locals, c.i is the pass.

Pass(c, i) == [c EXCEPT !.i = i]

TenPasses(c, l, i) ==
    [[v |-> l]
     EXCEPT !.v = Call("pass", Pass(c, i), @),
            !.v = Call("pass", Pass(c, i + 1), @),
            !.v = Call("pass", Pass(c, i + 2), @),
            !.v = Call("pass", Pass(c, i + 3), @),
            !.v = Call("pass", Pass(c, i + 4), @),
            !.v = Call("pass", Pass(c, i + 5), @),
            !.v = Call("pass", Pass(c, i + 6), @),
            !.v = Call("pass", Pass(c, i + 7), @),
            !.v = Call("pass", Pass(c, i + 8), @),
            !.v = Call("pass", Pass(c, i + 9), @)].v

TwentyPasses(c, l) ==
    [[v |-> l] EXCEPT !.v = TenPasses(c, @, 0), !.v = TenPasses(c, @, 10)].v

FiftyPasses(c, l) ==
    [[v |-> l]
     EXCEPT !.v = TenPasses(c, @, 0), !.v = TenPasses(c, @, 10),
            !.v = TenPasses(c, @, 20), !.v = TenPasses(c, @, 30),
            !.v = TenPasses(c, @, 40)].v

HundredPasses(c, l) ==
    [[v |-> l]
     EXCEPT !.v = TenPasses(c, @, 0), !.v = TenPasses(c, @, 10),
            !.v = TenPasses(c, @, 20), !.v = TenPasses(c, @, 30),
            !.v = TenPasses(c, @, 40), !.v = TenPasses(c, @, 50),
            !.v = TenPasses(c, @, 60), !.v = TenPasses(c, @, 70),
            !.v = TenPasses(c, @, 80), !.v = TenPasses(c, @, 90)].v

\* the loop named loop of a call on current that draws qs
LoopOf(loop, current, qs) == [loop |-> loop, current |-> current, qs |-> qs, i |-> 0]

\* ------------------------------------------------------------------ draws

\* Math.random() returns a double in [0, 1)

\* 0.125, 0.25, 0.375, 0.625, 0.75
Eighth == [s |-> 0, e |-> -55, m |-> <<0, 0, 0, 1024>>]

Quarter == [s |-> 0, e |-> -54, m |-> <<0, 0, 0, 1024>>]

ThreeEighths == [s |-> 0, e |-> -54, m |-> <<0, 0, 0, 1536>>]

FiveEighths == [s |-> 0, e |-> -53, m |-> <<0, 0, 0, 1280>>]

ThreeQuarters == [s |-> 0, e |-> -53, m |-> <<0, 0, 0, 1536>>]

\* 2^-29, 1.86e-9
Tiny == [s |-> 0, e |-> -81, m |-> <<0, 0, 0, 1024>>]

\* 1 - 3 * 2^-52: the logarithm of this draw, -6.66e-16, is less than half
\* the spacing of the doubles from 8 up
NearOne == [s |-> 0, e |-> -53, m |-> <<16378, 16383, 16383, 2047>>]

\* one pass of while (u === 0) u = Math.random(), for the variable name (u
\* or v): d lists the values Math.random() returns, l.n of them are taken
Retry(l, name, d) ==
    IF IsZero(l[name]) THEN [Assign(l, name, d[l.n + 1]) EXCEPT !.n = l.n + 1]
    ELSE l

\* randn(), for the values d that Math.random() returns: let u = 0, v = 0;
\* while (u === 0) u = Math.random(); while (v === 0) v = Math.random();
\* return Math.sqrt(-2.0 * Math.log(u)) * Math.cos(2.0 * Math.PI * v).
\* The two loops have no cap: they run for as long as Math.random() returns
\* 0, and d holds fewer than ten such draws.
randn(d) ==
    [[v |-> [u |-> Zero(0), v |-> Zero(0), n |-> 0, z |-> Zero(0)]]
     EXCEPT !.v = TenPasses(LoopOf("randn u", <<>>, d), @, 0),
            !.v = TenPasses(LoopOf("randn v", <<>>, d), @, 0),
            !.v = Assign(@, "z", Mul(FromInt(-2), Log(@.u))),
            !.v = Assign(@, "z", Sqrt(@.z)),
            !.v = Assign(@, "v", Mul(Mul(Two, PI), @.v)),
            !.v = Assign(@, "v", Cos(@.v)),
            !.v = Mul(@.z, @.v)].v

\* what Math.random() returns to a call of randn(): two draws it keeps, and
\* draws of 0 before each of them
RandnDraws ==
    {<<Quarter, Eighth>>, <<Zero(0), Quarter, Zero(0), Zero(0), FiveEighths>>}

\* the values of randn() a chain takes: 1.177 and -1.177
NormalDraws == {Call("randn", d, <<>>) : d \in RandnDraws}

\* Math.random() where its logarithm is taken
LogDraws == {Tiny, Quarter, NearOne}

\* Math.random() where it is an angle, Math.random() * PI2
ThetaDraws == {Zero(0), ThreeEighths}

\* Math.random() where it scales an interval
UnitDraws == {Quarter, ThreeQuarters}

\* the draws of Math.random() a shrink loop takes, pass after pass: each of
\* these repeats for as long as the loop runs
LoopDraws == {<<Quarter>>, <<ThreeQuarters, Quarter>>}

\* the draw of pass n (from 0) of a loop that draws qs
DrawAt(qs, n) == qs[(n % Len(qs)) + 1]

\* rand(min, max) = Math.random() * (max - min) + min, for the draw u
rand(min, max, u) ==
    [[v |-> Sub(max, min)] EXCEPT !.v = Mul(u, @), !.v = Add(@, min)].v

\* ---------------------------------------------------------------- kernels

lpFn(x, y) == Call("LOG_PROBS", animate.target, <<x, y>>)

gradFn(x, y) == Call("GRADIENTS", animate.target, <<x, y>>)

\* lpFn at the point pt
LpAt(pt) == lpFn(pt.x, pt.y)

\* { x: newX, y: newY, accepted: true, path }
Accepted(x, y, path) == [x |-> x, y |-> y, accepted |-> TRUE, path |-> path]

\* { ...current, accepted: false, path }
Rejected(current, path) ==
    [x |-> current.x, y |-> current.y, accepted |-> FALSE, path |-> path]

\* a kernel call in its last loop: the locals, and the value returned once
\* the call has returned
Running(l) == [l |-> l, r |-> Result0, returned |-> FALSE]

Returned(r, l) == [l |-> l, r |-> r, returned |-> TRUE]

\* a test that accepts the proposals that are no less probable, and no other
AcceptUphill(logU, newLp, currentLp) == Ge(newLp, currentLp)

\* stepRWM's test: Math.log(Math.random()) < newLp - currentLp
AcceptRWM(logU, newLp, currentLp) == Lt(logU, Sub(newLp, currentLp))

\* if (Math.log(Math.random()) < newLp - currentLp) return {x: xNew, y: yNew,
\* accepted: true}; return {...current, accepted: false}
RwmTest(current, l) ==
    IF AcceptRWM(l.logU, l.lpNew, l.lpCur)
    THEN Returned(Accepted(l.x, l.y, NoPath), l)
    ELSE Returned(Rejected(current, NoPath), l)

\* stepRWM for the values zx, zy of randn() and the draw u of Math.random();
\* the locals x, y are xNew, yNew
stepRWM(current, zx, zy, u) ==
    [[v |-> Loc0]
     EXCEPT !.v = Assign(@, "x", Add(current.x, Mul(zx, animate.params.stepSize))),
            !.v = Assign(@, "y", Add(current.y, Mul(zy, animate.params.stepSize))),
            !.v = Assign(@, "lpCur", lpFn(current.x, current.y)),
            !.v = Assign(@, "lpNew", lpFn(@.x, @.y)),
            !.v = Assign(@, "u", u),
            !.v = Assign(@, "logU", Log(u)),
            !.v = RwmTest(current, @)].v

\* stepMH's logQ: -0.5 * (x*x + y*y) / (sigma*sigma)
logQ(x, y) ==
    [[v |-> Mul(x, x)]
     EXCEPT !.v = Add(@, Mul(y, y)), !.v = Mul(Neg(Half), @),
            !.v = Div(@, Mul(MHSigma, MHSigma))].v

\* if (Math.log(Math.random()) < ratio) return {x: xNew, y: yNew, accepted:
\* true}; return {...current, accepted: false}
MhTest(current, l) ==
    IF Lt(l.logU, l.ratio)
    THEN Returned(Accepted(l.x, l.y, NoPath), l)
    ELSE Returned(Rejected(current, NoPath), l)

\* stepMH for the values zx, zy of randn() and the draw u of Math.random():
\* ratio = newLp + logQ(current.x, current.y) - currentLp - logQ(xNew, yNew)
stepMH(current, zx, zy, u) ==
    [[v |-> Loc0]
     EXCEPT !.v = Assign(@, "x", Mul(zx, MHSigma)),
            !.v = Assign(@, "y", Mul(zy, MHSigma)),
            !.v = Assign(@, "lpCur", lpFn(current.x, current.y)),
            !.v = Assign(@, "lpNew", lpFn(@.x, @.y)),
            !.v = Assign(@, "ratio", Add(@.lpNew, logQ(current.x, current.y))),
            !.v = Assign(@, "ratio", Sub(@.ratio, @.lpCur)),
            !.v = Assign(@, "ratio", Sub(@.ratio, logQ(@.x, @.y))),
            !.v = Assign(@, "u", u),
            !.v = Assign(@, "logU", Log(u)),
            !.v = MhTest(current, @)].v

\* the point current + dist * (dx, dy)
PointAt(current, dist, dx, dy) ==
    [x |-> Add(current.x, Mul(dist, dx)), y |-> Add(current.y, Mul(dist, dy))]

\* threshold = currentLp + Math.log(Math.random())
Threshold(currentLp, u) == Add(currentLp, Log(u))

\* the test of the slice kernels with >= for >
OnSliceOrEqual(l, lp) == Ge(lp, l.thr)

\* the test of the slice kernels, lpFn(...) > threshold, for the value lp
OnSlice(l, lp) == Gt(lp, l.thr)

\* lpFn(current.x + dist*dx, current.y + dist*dy) > threshold
Above(current, dist, l) ==
    [[v |-> PointAt(current, dist, l.dx, l.dy)]
     EXCEPT !.v = LpAt(@), !.v = OnSlice(l, @)].v

\* the locals with the bracket set to [L, R]
Bracket(l, L, R) ==
    [l EXCEPT !.L = L, !.R = R, !.brackets = Append(l.brackets, <<L, R>>)]

\* loop++
Looped(l) == [l EXCEPT !.loop = l.loop + 1]

\* a shrink that moves the wrong end: if (dist < 0) R = dist; else L = dist
ShrinkWrongEnd(l, dist) ==
    Looped(IF Lt(dist, Zero(0)) THEN Bracket(l, l.L, dist) ELSE Bracket(l, dist, l.R))

\* if (dist < 0) L = dist; else R = dist; loop++
Shrink(l, dist) ==
    Looped(IF Lt(dist, Zero(0)) THEN Bracket(l, dist, l.R) ELSE Bracket(l, l.L, dist))

\* the locals stepSlice and stepHitAndRun start from, for the draw u
\* (threshold), the angle theta and the first bracket [L, R]
LineSearch(current, u, theta, L, R) ==
    [[v |-> Loc0]
     EXCEPT !.v = Assign(@, "lpCur", lpFn(current.x, current.y)),
            !.v = Assign(@, "u", u),
            !.v = Assign(@, "thr", Threshold(@.lpCur, u)),
            !.v = Assign(@, "theta", theta),
            !.v = Assign(@, "dx", Cos(theta)),
            !.v = Assign(@, "dy", Sin(theta)),
            !.v = Bracket(@, L, R)].v

\* one pass of stepSlice's first while loop:
\* while (loop < 100 && lpFn(current + L*dir) > threshold) { L -= stepSize; loop++ }
SliceOutLPass(current, l) ==
    IF l.outL < SliceOutCap /\ Above(current, l.L, l)
    THEN [Bracket(l, Sub(l.L, animate.params.stepSize), l.R) EXCEPT !.outL = l.outL + 1]
    ELSE l

\* pass i of that loop
SliceOutLAt(current, l, i) == IF l.outL = i THEN SliceOutLPass(current, l) ELSE l

\* one pass of stepSlice's second while loop: R += stepSize
SliceOutRPass(current, l) ==
    IF l.outR < SliceOutCap /\ Above(current, l.R, l)
    THEN [Bracket(l, l.L, Add(l.R, animate.params.stepSize)) EXCEPT !.outR = l.outR + 1]
    ELSE l

SliceOutRAt(current, l, i) == IF l.outR = i THEN SliceOutRPass(current, l) ELSE l

\* the path stepSlice returns: the ends of the bracket
SlicePath(current, l) ==
    <<PointAt(current, l.L, l.dx, l.dy), PointAt(current, l.R, l.dx, l.dy)>>

\* if (lpFn(newX, newY) > threshold) return {x: newX, y: newY, accepted:
\* true, path}; if (dist < 0) L = dist; else R = dist; loop++
SliceTest(current, l) ==
    IF OnSlice(l, l.lpNew)
    THEN Returned(Accepted(l.x, l.y, SlicePath(current, l)), l)
    ELSE Running(Shrink(l, l.dist))

\* the body of a shrink loop up to its test, for the draw q: dist = rand(L, R);
\* newX = current.x + dist * dx; newY = current.y + dist * dy; the locals
\* x, y are newX, newY and lpNew is lpFn(newX, newY)
Tried(current, l, q) ==
    [[v |-> l]
     EXCEPT !.v = Assign(@, "dist", rand(@.L, @.R, q)),
            !.v = Assign(@, "x", Add(current.x, Mul(@.dist, @.dx))),
            !.v = Assign(@, "y", Add(current.y, Mul(@.dist, @.dy))),
            !.v = Assign(@, "lpNew", lpFn(@.x, @.y))].v

\* one pass of stepSlice's shrink loop, while (loop < 100) { ... }, drawing qs
SlicePass(current, l, qs) ==
    IF l.loop < SliceShrinkCap
    THEN SliceTest(current, Tried(current, l, DrawAt(qs, l.loop)))
    ELSE Running(l)

\* pass i of that loop, for the call c
SliceAt(current, c, qs, i) ==
    IF ~c.returned /\ c.l.loop = i THEN SlicePass(current, c.l, qs) ELSE c

\* what stepSlice returns after its shrink loop: { ...current, accepted: false }
SliceExhausted(current, c) ==
    IF c.returned THEN c ELSE Returned(Rejected(current, NoPath), c.l)

\* stepSlice for the draws u (threshold), th (direction), uL (the place of
\* the first bracket) and qs (the shrink loop):
\* let L = -Math.random() * params.stepSize; let R = L + params.stepSize
stepSlice(current, u, th, uL, qs) ==
    [[v |-> Mul(Neg(uL), animate.params.stepSize)]
     EXCEPT !.v = LineSearch(current, u, Mul(th, PI2), @,
                             Add(@, animate.params.stepSize)),
            !.v = HundredPasses(LoopOf("SliceOutL", current, qs), @),
            !.v = HundredPasses(LoopOf("SliceOutR", current, qs), @),
            !.v = Running(@),
            !.v = HundredPasses(LoopOf("Slice", current, qs), @),
            !.v = SliceExhausted(current, @)].v

\* current * cos(theta) + nu * sin(theta)
EllipseAt(current, l, c, s) ==
    [x |-> Add(Mul(current.x, c), Mul(l.nuX, s)),
     y |-> Add(Mul(current.y, c), Mul(l.nuY, s))]

\* newX = current.x * Math.cos(theta) + nuX * Math.sin(theta);
\* newY = current.y * Math.cos(theta) + nuY * Math.sin(theta)
OnEllipse(current, l) ==
    [[v |-> [c |-> Cos(l.theta), s |-> Zero(0)]]
     EXCEPT !.v = Assign(@, "s", Sin(l.theta)),
            !.v = EllipseAt(current, l, @.c, @.s)].v

\* the locals with the angle bracket set to [lo, hi]
AngleBracket(l, lo, hi) ==
    [l EXCEPT !.thetaMin = lo, !.thetaMax = hi,
              !.brackets = Append(l.brackets, <<lo, hi>>)]

\* theta = rand(thetaMin, thetaMax); loops++
Redrawn(l, u) == Looped([l EXCEPT !.theta = rand(l.thetaMin, l.thetaMax, u)])

\* if (theta < 0) thetaMin = theta; else thetaMax = theta;
\* theta = rand(thetaMin, thetaMax); loops++
ShrinkAngle(l, u) ==
    Redrawn(IF Lt(l.theta, Zero(0)) THEN AngleBracket(l, l.theta, l.thetaMax)
                                    ELSE AngleBracket(l, l.thetaMin, l.theta), u)

\* if (lpFn(newX, newY) > threshold) return {x: newX, y: newY, accepted: true}
EllipticalTest(current, l, qs) ==
    IF OnSlice(l, l.lpNew)
    THEN Returned(Accepted(l.x, l.y, NoPath), l)
    ELSE Running(ShrinkAngle(l, DrawAt(qs, l.loop)))

\* the locals x, y set to the point pt, and lpNew to lpFn there
Placed(l, pt) ==
    [[v |-> [l EXCEPT !.x = pt.x, !.y = pt.y]]
     EXCEPT !.v = Assign(@, "lpNew", lpFn(@.x, @.y))].v

\* one pass of stepElliptical's loop, while (loops < 50) { ... }, drawing qs
EllipticalPass(current, l, qs) ==
    IF l.loop < EllipticalCap
    THEN EllipticalTest(current, Placed(l, OnEllipse(current, l)), qs)
    ELSE Running(l)

EllipticalAt(current, c, qs, i) ==
    IF ~c.returned /\ c.l.loop = i THEN EllipticalPass(current, c.l, qs) ELSE c

\* what a kernel returns after its last loop: { ...current, accepted: false }
Exhausted(current, c) ==
    IF c.returned THEN c ELSE Returned(Rejected(current, NoPath), c.l)

\* stepElliptical for the values zx, zy of randn() (nu) and the draws u
\* (threshold), th (the first angle) and qs (the loop):
\* let theta = Math.random() * PI2; let thetaMin = theta - PI2; let
\* thetaMax = theta
stepElliptical(current, zx, zy, u, th, qs) ==
    [[v |-> [Loc0 EXCEPT !.nuX = zx, !.nuY = zy, !.u = u]]
     EXCEPT !.v = Assign(@, "lpCur", lpFn(current.x, current.y)),
            !.v = Assign(@, "thr", Threshold(@.lpCur, u)),
            !.v = Assign(@, "theta", Mul(th, PI2)),
            !.v = AngleBracket(@, Sub(@.theta, PI2), @.theta),
            !.v = Running(@),
            !.v = FiftyPasses(LoopOf("Elliptical", current, qs), @),
            !.v = Exhausted(current, @)].v

\* one pass of stepHitAndRun's first while loop:
\* while (loop < 20 && lpFn(current + L*dir) > threshold) { L *= 2; loop++ }
HitRunOutLPass(current, l) ==
    IF l.outL < HitRunOutCap /\ Above(current, l.L, l)
    THEN [Bracket(l, Mul(l.L, Two), l.R) EXCEPT !.outL = l.outL + 1]
    ELSE l

HitRunOutLAt(current, l, i) == IF l.outL = i THEN HitRunOutLPass(current, l) ELSE l

\* one pass of stepHitAndRun's second while loop: R *= 2
HitRunOutRPass(current, l) ==
    IF l.outR < HitRunOutCap /\ Above(current, l.R, l)
    THEN [Bracket(l, l.L, Mul(l.R, Two)) EXCEPT !.outR = l.outR + 1]
    ELSE l

HitRunOutRAt(current, l, i) == IF l.outR = i THEN HitRunOutRPass(current, l) ELSE l

\* if (lpFn(newX, newY) > threshold) return {x: newX, y: newY, accepted:
\* true}; if (dist < 0) L = dist; else R = dist; loop++
HitRunTest(current, l) ==
    IF OnSlice(l, l.lpNew)
    THEN Returned(Accepted(l.x, l.y, NoPath), l)
    ELSE Running(Shrink(l, l.dist))

\* one pass of stepHitAndRun's shrink loop, while (loop < 50) { ... },
\* drawing qs
HitRunPass(current, l, qs) ==
    IF l.loop < HitRunShrinkCap
    THEN HitRunTest(current, Tried(current, l, DrawAt(qs, l.loop)))
    ELSE Running(l)

HitRunAt(current, c, qs, i) ==
    IF ~c.returned /\ c.l.loop = i THEN HitRunPass(current, c.l, qs) ELSE c

\* stepHitAndRun for the draws th (direction), u (threshold) and qs (the
\* shrink loop); let L = -1.0; let R = 1.0
stepHitAndRun(current, th, u, qs) ==
    [[v |-> LineSearch(current, u, Mul(th, PI2), Neg(One), One)]
     EXCEPT !.v = TwentyPasses(LoopOf("HitRunOutL", current, qs), @),
            !.v = TwentyPasses(LoopOf("HitRunOutR", current, qs), @),
            !.v = Running(@),
            !.v = FiftyPasses(LoopOf("HitRun", current, qs), @),
            !.v = Exhausted(current, @)].v

\* 0.5 * (px**2 + py**2)
Kinetic(px, py) ==
    [[v |-> Sq(px)] EXCEPT !.v = Add(@, Sq(py)), !.v = Mul(Half, @)].v

\* x += hmcEpsilon * px; y += hmcEpsilon * py
Moved(l, eps) ==
    [l EXCEPT !.x = Add(l.x, Mul(eps, l.px)), !.y = Add(l.y, Mul(eps, l.py))]

\* grad = the value a call of gradFn returned
WithGrad(l, grad) == [l EXCEPT !.gdx = grad.dx, !.gdy = grad.dy]

\* grad = gradFn(x, y)
GradAt(l) ==
    [[v |-> gradFn(l.x, l.y)] EXCEPT !.v = WithGrad(l, @)].v

\* px += hmcEpsilon * grad.dx; py += hmcEpsilon * grad.dy
Kick(l, eps) ==
    [l EXCEPT !.px = Add(l.px, Mul(eps, l.gdx)), !.py = Add(l.py, Mul(eps, l.gdy))]

\* px += 0.5 * hmcEpsilon * grad.dx; py += 0.5 * hmcEpsilon * grad.dy
HalfKick(l, eps) ==
    [l EXCEPT !.px = Add(l.px, Mul(Mul(Half, eps), l.gdx)),
              !.py = Add(l.py, Mul(Mul(Half, eps), l.gdy))]

\* trajectory.push({x, y})
Recorded(l) ==
    [l EXCEPT !.trajectory = Append(l.trajectory, [x |-> l.x, y |-> l.y])]

\* the push left out on the last pass
RecordedUnlessLast(l, hmcSteps) ==
    IF l.i # hmcSteps - 1 THEN Recorded(l) ELSE l

\* if (i !== hmcSteps - 1) { px += ...; py += ... }
KickUnlessLast(l, hmcSteps, eps) ==
    IF l.i # hmcSteps - 1 THEN Kick(l, eps) ELSE l

\* a pass of stepHMC's for loop that does not record the position of the
\* last pass
LeapfrogPassUnrecorded(l, hmcSteps, eps) ==
    IF l.i < hmcSteps
    THEN [[v |-> Moved(l, eps)]
          EXCEPT !.v = RecordedUnlessLast(@, hmcSteps), !.v = GradAt(@),
                 !.v = KickUnlessLast(@, hmcSteps, eps),
                 !.v = [@ EXCEPT !.i = l.i + 1]].v
    ELSE l

\* one pass of stepHMC's loop, for (let i = 0; i < hmcSteps; i++) { ... }:
\* a full step of the position, the push, the gradient, a full step of the
\* momentum except on the last pass, and i++
LeapfrogPass(l, hmcSteps, eps) ==
    IF l.i < hmcSteps
    THEN [[v |-> Moved(l, eps)]
          EXCEPT !.v = Recorded(@), !.v = GradAt(@),
                 !.v = KickUnlessLast(@, hmcSteps, eps),
                 !.v = [@ EXCEPT !.i = l.i + 1]].v
    ELSE l

\* pass n of that loop
LeapfrogAt(l, n) ==
    IF l.i = n
    THEN LeapfrogPass(l, animate.params.hmcSteps, animate.params.hmcEpsilon)
    ELSE l

\* stepHMC's test: Math.log(Math.random()) < currentH - proposedH
AcceptHMC(logU, currentH, proposedH) == Lt(logU, Sub(currentH, proposedH))

\* the locals stepHMC starts from, for the values zx, zy of randn()
StartHMC(current, zx, zy) ==
    [Loc0 EXCEPT !.initialPx = zx, !.initialPy = zy, !.px = zx, !.py = zy,
                 !.x = current.x, !.y = current.y, !.trajectory = <<current>>]

\* currentU + currentK, for the value lp of lpFn: U = -lp
EnergyAt(lp, px, py) == Add(Neg(lp), Kinetic(px, py))

\* if (Math.log(Math.random()) < currentH - proposedH) return { x, y,
\* accepted: true, path: trajectory }; return { ...current, accepted: false,
\* path: trajectory }
ReturnHMC(current, l) ==
    IF AcceptHMC(l.logU, l.currentH, l.proposedH)
    THEN Returned(Accepted(l.x, l.y, l.trajectory), l)
    ELSE Returned(Rejected(current, l.trajectory), l)

\* the energies, the test and the return of stepHMC, for the locals l after
\* the last half step and the draw u
TestHMC(current, u, l) ==
    [[v |-> l]
     EXCEPT !.v = Assign(@, "lpCur", lpFn(current.x, current.y)),
            !.v = Assign(@, "currentH", EnergyAt(@.lpCur, @.initialPx, @.initialPy)),
            !.v = Assign(@, "lpNew", lpFn(@.x, @.y)),
            !.v = Assign(@, "proposedH", EnergyAt(@.lpNew, @.px, @.py)),
            !.v = Assign(@, "u", u),
            !.v = Assign(@, "logU", Log(u)),
            !.v = ReturnHMC(current, @)].v

\* stepHMC for the values zx, zy of randn() (the momentum) and the draw u;
\* the slider of hmcSteps stops at 50
stepHMC(current, zx, zy, u) ==
    [[v |-> StartHMC(current, zx, zy)]
     EXCEPT !.v = GradAt(@),
            !.v = HalfKick(@, animate.params.hmcEpsilon),
            !.v = FiftyPasses(LoopOf("Leapfrog", current, <<>>), @),
            !.v = HalfKick(@, animate.params.hmcEpsilon),
            !.v = TestHMC(current, u, @)].v
\* ------------------------------------------------------------ the frame loop

\* the browser runs the pending animation-frame callback: animate up to its
\* loop (budget bounds the samples a chain takes)
AnimateBegin(budget) ==
    /\ pc = "idle"
    /\ requestRef
    /\ Len(emitted) + animate.params.stepsPerFrame <= budget
    /\ requestRef' = FALSE
    /\ IF animate.isRunning
       THEN pc' = "loop" /\ k' = 0
       ELSE UNCHANGED <<pc, k>>
    /\ UNCHANGED <<algo, target, isRunning, params, stateRef, animate,
                   emitted, last, trace>>

\* a push that shifts one sample early: >= for >
PushEarly(samples, s) ==
    LET pushed == Append(samples, s)
    IN  IF Len(pushed) >= Capacity THEN Tail(pushed) ELSE pushed

\* samples.push(s); if (samples.length > 2000) samples.shift()
Push(samples, s) ==
    LET pushed == Append(samples, s)
    IN  IF Len(pushed) > Capacity THEN Tail(pushed) ELSE pushed

\* the sample animate pushes for a kernel result
SampleOf(r) == [x |-> r.x, y |-> r.y, accepted |-> r.accepted]

\* a fold that pushes the sample and leaves the position where it was
FoldSampleOnly(st, r) ==
    [x |-> st.x, y |-> st.y, currentPath |-> r.path,
     samples |-> Push(st.samples, SampleOf(r))]

\* a fold that pushes the samples of the accepted steps only
FoldAccepted(st, r) ==
    [x |-> r.x, y |-> r.y, currentPath |-> r.path,
     samples |-> IF r.accepted THEN Push(st.samples, SampleOf(r)) ELSE st.samples]

\* a fold that keeps the trajectory of an earlier step when the kernel
\* returned no path
FoldKeepPath(st, r) ==
    [x |-> r.x, y |-> r.y,
     currentPath |-> IF r.path = NoPath THEN st.currentPath ELSE r.path,
     samples |-> Push(st.samples, SampleOf(r))]

\* animate folds a kernel result into stateRef.current
FoldInto(st, r) ==
    [x |-> r.x, y |-> r.y, currentPath |-> r.path,
     samples |-> Push(st.samples, SampleOf(r))]

Current == [x |-> stateRef.x, y |-> stateRef.y]

\* one pass of animate's loop for the kernel a: the kernel call, which
\* returned s.r with its locals at s.l, and the fold of s.r into the chain
LoopBody(a, s) ==
    /\ pc = "loop"
    /\ k < animate.params.stepsPerFrame
    /\ animate.algo = a
    /\ stateRef' = FoldInto(stateRef, s.r)
    /\ emitted' = Append(emitted, [sample |-> SampleOf(s.r),
                                   algo |-> animate.algo,
                                   target |-> animate.target])
    /\ last' = [algo |-> animate.algo, target |-> animate.target,
                prevX |-> stateRef.x, prevY |-> stateRef.y,
                prevPath |-> stateRef.currentPath,
                hmcSteps |-> animate.params.hmcSteps,
                returned |-> s.returned, result |-> s.r, loc |-> s.l]
    /\ trace' = Unlogged("other", trace.left)
    /\ k' = k + 1
    /\ UNCHANGED <<algo, target, isRunning, params, animate, requestRef, pc>>

\* case 'rwm': result = stepRWM(curr, lpFn), and the like
StepRWM(zx, zy, u) == LoopBody("rwm", Call("stepRWM", Current, <<zx, zy, u>>))

StepMH(zx, zy, u) == LoopBody("mh", Call("stepMH", Current, <<zx, zy, u>>))

StepSlice(u, th, uL, qs) ==
    LoopBody("slice", Call("stepSlice", Current, <<u, th, uL, qs>>))

StepElliptical(zx, zy, u, th, qs) ==
    LoopBody("elliptical", Call("stepElliptical", Current, <<zx, zy, u, th, qs>>))

StepHitAndRun(th, u, qs) ==
    LoopBody("hitnrun", Call("stepHitAndRun", Current, <<th, u, qs>>))

StepHMC(zx, zy, u) == LoopBody("hmc", Call("stepHMC", Current, <<zx, zy, u>>))

\* after the loop animate draws and requests the next frame
AnimateEnd ==
    /\ pc = "loop"
    /\ k >= animate.params.stepsPerFrame
    /\ pc' = "idle"
    /\ requestRef' = TRUE
    /\ UNCHANGED <<algo, target, isRunning, params, stateRef, animate,
                   k, emitted, last, trace>>

\* ------------------------------------------------------------ specification

\* the values the sliders are moved to
StepSizeChoices == {Dec(5, 1), Dec(10, 1)}

StepsPerFrameChoices == {1, 2}

HmcStepsChoices == {3, 10}

HmcEpsilonChoices == {Dec(10, 2), Dec(50, 2)}

\* the behaviour may hold one more UI event
Input == trace.left > 0

UserAction ==
    \/ Input /\ ResetClick
    \/ Input /\ ToggleRunning
    \/ \E id \in AlgoType : Input /\ SidebarItemClick(id)
    \/ \E t \in TargetType : Input /\ TargetChange(t)
    \/ \E v \in StepSizeChoices : Input /\ ParamChange("stepSize", v)
    \/ \E v \in StepsPerFrameChoices : Input /\ ParamChange("stepsPerFrame", v)
    \/ \E v \in HmcStepsChoices : Input /\ ParamChange("hmcSteps", v)
    \/ \E v \in HmcEpsilonChoices : Input /\ ParamChange("hmcEpsilon", v)

\* the draws of the steps of Spec
OneNormal == {Call("randn", <<Quarter, Eighth>>, <<>>)}

HalfDraws == {Quarter, ThreeQuarters}

OneTheta == {ThreeEighths}

OneUnit == {Quarter}

OneLoop == {<<Quarter, ThreeQuarters>>}

\* one kernel step, its draws taken from N (randn), U (a logarithm is
\* taken), T (an angle), Q (the place of a bracket) and P (a shrink loop)
Kernel(N, U, T, Q, P) ==
    \/ \E zx, zy \in N, u \in U : StepRWM(zx, zy, u)
    \/ \E zx, zy \in N, u \in U : StepMH(zx, zy, u)
    \/ \E u \in U, th \in T, uL \in Q, qs \in P : StepSlice(u, th, uL, qs)
    \/ \E zx, zy \in N, u \in U, th \in T, qs \in P :
         StepElliptical(zx, zy, u, th, qs)
    \/ \E th \in T, u \in U, qs \in P : StepHitAndRun(th, u, qs)
    \/ \E zx, zy \in N, u \in U : StepHMC(zx, zy, u)

Next ==
    \/ UserAction
    \/ AnimateBegin(MaxSteps)
    \/ Kernel(OneNormal, HalfDraws, OneTheta, OneUnit, OneLoop)
    \/ AnimateEnd

Spec == Init /\ [][Next]_vars

\* the states in which a chain starts to run: a kernel, a target and
\* parameters selected, the chain seeded, Start pressed
InitChain ==
    /\ algo \in AlgoType
    /\ target \in TargetType
    /\ isRunning = TRUE
    /\ \E ss \in StepSizeChoices, hs \in HmcStepsChoices, he \in HmcEpsilonChoices :
         params = [stepSize |-> ss, stepsPerFrame |-> 1, hmcSteps |-> hs,
                   hmcEpsilon |-> he]
    /\ algo # "hmc" => params.hmcSteps = 10 /\ params.hmcEpsilon = Tenth
    /\ algo # "rwm" => params.stepSize = Half
    /\ stateRef = SeedState
    /\ animate = Closure(TRUE, algo, target, params)
    /\ requestRef = TRUE
    /\ pc = "idle"
    /\ k = 0
    /\ emitted = <<>>
    /\ last = Last0
    /\ trace = Unlogged("other", 0)

\* the draws of a step of a chain that has taken n steps: each of first for
\* the first step, the fewer of later for a later one
Staged(n, first, later) == IF n = 0 THEN first ELSE later

LaterLog == {Quarter, NearOne}

\* the steps of a running chain, no UI event between them
NextChain ==
    \/ AnimateBegin(ChainSteps)
    \/ Kernel(Staged(Len(emitted), NormalDraws, OneNormal),
              Staged(Len(emitted), LogDraws, LaterLog),
              Staged(Len(emitted), ThetaDraws, OneTheta),
              Staged(Len(emitted), UnitDraws, OneUnit),
              Staged(Len(emitted), LoopDraws, OneLoop))
    \/ AnimateEnd

SpecChain == InitChain /\ [][NextChain]_vars

\* a long run of one chain, past the capacity of the history: Random Walk
\* Metropolis on the gaussian target, each call of animate taken whole

\* the chain, with its history and the loop's index k, as a pass of animate's
\* loop leaves it for the kernel's return s
Passed(c, s) ==
    [k |-> c.k + 1,
     st |-> FoldInto(c.st, s.r),
     em |-> Append(c.em, [sample |-> SampleOf(s.r), algo |-> animate.algo,
                          target |-> animate.target]),
     last |-> [algo |-> animate.algo, target |-> animate.target,
               prevX |-> c.st.x, prevY |-> c.st.y, prevPath |-> c.st.currentPath,
               hmcSteps |-> animate.params.hmcSteps,
               returned |-> s.returned, result |-> s.r, loc |-> s.l]]

\* the draws of the pass that takes sample n + 1 of a frame whose draws are
\* z and u: the sign of z alternates, u comes every third pass
DrawZx(n, z) == IF n % 2 = 0 THEN z ELSE Neg(z)

DrawZy(n, z) == IF (n \div 2) % 2 = 0 THEN z ELSE Neg(z)

DrawU(n, u) == IF n % 3 = 0 THEN u ELSE ThreeQuarters

\* one pass of animate's loop, for (let k = 0; k < params.stepsPerFrame; k++)
\* { ... }, for the kernel rwm
LoopPass(c, z, u) ==
    IF c.k < animate.params.stepsPerFrame
    THEN Passed(c, stepRWM([x |-> c.st.x, y |-> c.st.y], DrawZx(Len(c.em), z),
                           DrawZy(Len(c.em), z), DrawU(Len(c.em), u)))
    ELSE c

\* pass i of that loop
LoopAt(c, z, u, i) == IF c.k = i THEN LoopPass(c, z, u) ELSE c

\* the loop; the slider of stepsPerFrame stops at 20
Loop(c, z, u) == TwentyPasses(LoopOf("animate", <<>>, <<z, u>>), c)

\* ------------------------------------------------------------ the operations

\* pass c.i of the loop c.loop, on the locals l
PassAt(c, l) ==
    CASE c.loop = "SliceOutL" -> SliceOutLAt(c.current, l, c.i)
      [] c.loop = "SliceOutR" -> SliceOutRAt(c.current, l, c.i)
      [] c.loop = "Slice" -> SliceAt(c.current, l, c.qs, c.i)
      [] c.loop = "Elliptical" -> EllipticalAt(c.current, l, c.qs, c.i)
      [] c.loop = "HitRunOutL" -> HitRunOutLAt(c.current, l, c.i)
      [] c.loop = "HitRunOutR" -> HitRunOutRAt(c.current, l, c.i)
      [] c.loop = "HitRun" -> HitRunAt(c.current, l, c.qs, c.i)
      [] c.loop = "Leapfrog" -> LeapfrogAt(l, c.i)
      [] c.loop = "randn u" -> Retry(l, "u", c.qs)
      [] c.loop = "randn v" -> Retry(l, "v", c.qs)
      [] c.loop = "animate" -> LoopAt(l, c.qs[1], c.qs[2], c.i)

\* the operation op applied to a and b: the arithmetic of the numbers, the
\* functions of Math, and the functions and loops of the program
Call(op, a, b) ==
    CASE op = "Add" -> Addition(a, b)
      [] op = "Mul" -> Multiplication(a, b)
      [] op = "Div" -> Division(a, b)
      [] op = "Sqrt" -> SquareRoot(a)
      [] op = "RootStep" -> RootStep(a, b)
      [] op = "Round" -> RoundBits(a[1], a[2], a[3], a[4], b)
      [] op = "Dec" -> Decimal(a, b)
      [] op = "Math.exp" -> MathExp(a)
      [] op = "Math.log" -> MathLog(a)
      [] op = "Math.sin" -> MathSin(a)
      [] op = "Math.cos" -> MathCos(a)
      [] op = "LOG_PROBS" -> LOG_PROBS(a, b[1], b[2])
      [] op = "GRADIENTS" -> GRADIENTS(a, b[1], b[2])
      [] op = "pass" -> PassAt(a, b)
      [] op = "randn" -> randn(a)
      [] op = "stepRWM" -> stepRWM(a, b[1], b[2], b[3])
      [] op = "stepMH" -> stepMH(a, b[1], b[2], b[3])
      [] op = "stepSlice" -> stepSlice(a, b[1], b[2], b[3], b[4])
      [] op = "stepElliptical" -> stepElliptical(a, b[1], b[2], b[3], b[4], b[5])
      [] op = "stepHitAndRun" -> stepHitAndRun(a, b[1], b[2], b[3])
      [] op = "stepHMC" -> stepHMC(a, b[1], b[2], b[3])
      [] op = "animate" -> Loop(a, b[1], b[2])

\* the chain as the loop of a call of animate leaves it
Landed(c) ==
    /\ stateRef' = c.st
    /\ emitted' = c.em
    /\ last' = c.last
    /\ k' = c.k

\* one call of animate of a running Random Walk Metropolis chain: the loop,
\* then the request of the next frame
AnimateRWM(z, u, budget) ==
    /\ pc = "idle"
    /\ requestRef
    /\ animate.isRunning
    /\ animate.algo = "rwm"
    /\ Len(emitted) + animate.params.stepsPerFrame <= budget
    /\ Landed(Call("animate", [k |-> 0, st |-> stateRef, em |-> emitted, last |-> last],
                    <<z, u>>))
    /\ requestRef' = TRUE
    /\ trace' = Unlogged("other", trace.left)
    /\ UNCHANGED <<algo, target, isRunning, params, animate, pc>>

InitLong ==
    /\ algo = "rwm"
    /\ target = "gaussian"
    /\ isRunning = TRUE
    /\ \E spf \in {10, 20} :
         params = [stepSize |-> Half, stepsPerFrame |-> spf, hmcSteps |-> 10,
                   hmcEpsilon |-> Tenth]
    /\ stateRef = SeedState
    /\ animate = Closure(TRUE, algo, target, params)
    /\ requestRef = TRUE
    /\ pc = "idle"
    /\ k = 0
    /\ emitted = <<>>
    /\ last = Last0
    /\ trace = Unlogged("other", 0)

\* the draws of a frame: one choice until the history is about full, free
\* from there
LongNormal(n) == IF n + 20 >= Capacity THEN NormalDraws ELSE OneNormal

LongLog(n) == IF n + 20 >= Capacity THEN HalfDraws ELSE OneUnit

NextLong ==
    \/ ResetClick
    \/ \E z \in LongNormal(Len(emitted)), u \in LongLog(Len(emitted)) :
         AnimateRWM(z, u, Capacity + 20 * ExtraFrames)

SpecLong == InitLong /\ [][NextLong]_vars

\* the parameter inputs' handlers called with any number, as a caller that
\* is not one of the sliders can call them
RawStepSize == {Dec(-5, 1), Dec(0, 1), Dec(5, 1)}

RawStepsPerFrame == {0, 1}

RawHmcSteps == {0, 3}

RawHmcEpsilon == {Dec(0, 2), Dec(10, 2)}

NextRaw ==
    \/ Input /\ ToggleRunning
    \/ \E id \in {"rwm", "hmc"} : Input /\ SidebarItemClick(id)
    \/ \E v \in RawStepSize : Input /\ ParamChange("stepSize", v)
    \/ \E v \in RawStepsPerFrame : Input /\ ParamChange("stepsPerFrame", v)
    \/ \E v \in RawHmcSteps : Input /\ ParamChange("hmcSteps", v)
    \/ \E v \in RawHmcEpsilon : Input /\ ParamChange("hmcEpsilon", v)
    \/ AnimateBegin(MaxSteps)
    \/ \E zx, zy \in OneNormal, u \in HalfDraws : StepRWM(zx, zy, u)
    \/ \E zx, zy \in OneNormal, u \in HalfDraws : StepHMC(zx, zy, u)
    \/ AnimateEnd

SpecRaw == Init /\ [][NextRaw]_vars
\* ------------------------------------------------------------------ claims

\* LOG_PROBS[t](x, y)
LogProbAt(t, x, y) == Call("LOG_PROBS", t, <<x, y>>)

\* a step has been folded since the last reset
Stepped == last.algo # "none"

\* C1 (SpecLong): the history never holds more than Capacity samples; after
\* n steps since the last reset it holds the most recent min(n, Capacity)
\* samples emitted, in the order they were emitted.
C1_HistoryIsRecentWindow ==
    LET n == Len(emitted)
        h == stateRef.samples
    IN  /\ Len(h) <= Capacity
        /\ Len(h) = Min(n, Capacity)
        /\ \A i \in 1..Len(h) : h[i] = emitted[n - Len(h) + i].sample

\* more than Capacity steps taken, the oldest samples evicted
C1_Witness ==
    /\ Len(emitted) = Capacity + 10
    /\ Len(stateRef.samples) = Capacity
    /\ stateRef.samples[1] = emitted[11].sample
    /\ stateRef.samples[1] # emitted[1].sample

\* C2 (Spec): the position is that of the last sample of a non-empty history,
\* and the seed (0.1, 0.1) while no step has been taken since the chain was
\* created or reset.
C2_PositionIsLastSample ==
    LET h == stateRef.samples
    IN  /\ h # <<>> => stateRef.x = h[Len(h)].x /\ stateRef.y = h[Len(h)].y
        /\ (h = <<>> \/ emitted = <<>>) => stateRef.x = SeedX /\ stateRef.y = SeedY

\* two steps taken, the second accepted, the chain away from the seed
C2_Witness ==
    /\ Len(stateRef.samples) = 2
    /\ stateRef.samples[2].accepted
    /\ stateRef.samples[2] # stateRef.samples[1]
    /\ <<stateRef.x, stateRef.y>> # <<SeedX, SeedY>>

\* C3 (Spec): after reset() the position is (0.1, 0.1), the history is empty
\* and there is no trajectory, whatever the state it was called in; the state
\* after a second reset() in a row is that state again.
C3_ResetYieldsSeed ==
    trace.last = "reset" =>
        /\ stateRef.x = SeedX /\ stateRef.y = SeedY
        /\ stateRef.samples = <<>>
        /\ stateRef.currentPath = NoPath
        /\ stateRef = SeedState

\* reset() called twice in a row while the chain is running, the first call
\* on a chain that had left the seed state
C3_Witness ==
    /\ trace.last = "reset"
    /\ trace.again
    /\ trace.moved
    /\ isRunning

\* C4 (Spec): every sample of the history was produced by the kernel and on
\* the target now selected, the first of them from the seed state, and the
\* animation callback that is pending or running is the one of the current
\* selection: a change of kernel or target re-seeds the chain before any step
\* under the new selection, also while the animation runs.
C4_ReseededOnSwitch ==
    /\ Len(stateRef.samples) = Min(Len(emitted), Capacity)
    /\ \A i \in 1..Len(emitted) :
         /\ emitted[i].algo = algo
         /\ emitted[i].target = target
    /\ \A i \in 1..Len(stateRef.samples) :
         stateRef.samples[i]
           = emitted[Len(emitted) - Len(stateRef.samples) + i].sample
    /\ Len(emitted) = 1 =>
         /\ last.prevX = SeedX /\ last.prevY = SeedY
         /\ last.prevPath = NoPath
    /\ trace.last = "switch" => stateRef = SeedState
    /\ (requestRef \/ pc = "loop") =>
         /\ animate.algo = algo
         /\ animate.target = target

\* the selection just changed while the animation runs, on a chain that had
\* left the seed state; the callback of the new selection is pending
C4_Witness ==
    /\ trace.last = "switch"
    /\ trace.moved
    /\ isRunning
    /\ requestRef
    /\ algo # "rwm"
    /\ target # "bimodal"
    /\ stateRef = SeedState

\* C5 (SpecChain): a step of the slice, elliptical slice or hit-and-run
\* kernel that reports accepted = true returns a point whose log-density is
\* strictly greater than the threshold logp(previous position) + log(u).
C5_AcceptedAboveThreshold ==
    (/\ last.algo \in {"slice", "elliptical", "hitnrun"}
     /\ last.result.accepted)
    => Gt(LogProbAt(last.target, last.result.x, last.result.y),
          Threshold(LogProbAt(last.target, last.prevX, last.prevY), last.loc.u))

\* a slice step accepted after the bracket was shrunk at least once
C5_Witness ==
    /\ last.algo = "slice"
    /\ last.result.accepted
    /\ last.loc.loop >= 1
    /\ <<last.result.x, last.result.y>> # <<last.prevX, last.prevY>>

\* C6 (SpecRaw): a parameter input called with a non-positive stepSize or
\* hmcEpsilon, or with hmcSteps or stepsPerFrame below 1, leaves the
\* parameters and the chain state as they were.
C6_InvalidParamsRejected ==
    (trace.last = "setParams" /\ ~trace.valid) =>
        /\ params = trace.before.params
        /\ stateRef = trace.before.stateRef

\* the decision of the last step against the values lpOld, lpNew of logp at
\* the position before it and at its proposal
DecidedBy(lpOld, lpNew) ==
    /\ last.result.accepted <=> Lt(last.loc.logU, Sub(lpNew, lpOld))
    /\ Ge(lpNew, lpOld) => last.result.accepted

\* C7 (SpecChain): a Random Walk Metropolis step accepts exactly when
\* log u < logp(x') - logp(x); so every proposal with logp(x') >= logp(x) is
\* accepted, and nothing but logp(x), logp(x') and u enters the decision.
C7_RwmAcceptsIffRatio ==
    last.algo = "rwm" =>
        /\ last.loc.logU = Log(last.loc.u)
        /\ DecidedBy(LogProbAt(last.target, last.prevX, last.prevY),
                     LogProbAt(last.target, last.loc.x, last.loc.y))
        /\ last.result.accepted =>
             last.result.x = last.loc.x /\ last.result.y = last.loc.y

\* a proposal to a less probable point, accepted
C7_Witness ==
    /\ last.algo = "rwm"
    /\ last.result.accepted
    /\ Lt(LogProbAt(last.target, last.loc.x, last.loc.y),
          LogProbAt(last.target, last.prevX, last.prevY))

\* a cap of the last step was exhausted: a step-out or doubling loop, or the
\* shrink or try loop, made as many passes as its cap allows
CapExhausted ==
    \/ /\ last.algo = "slice"
       /\ \/ SliceOutCap \in {last.loc.outL, last.loc.outR}
          \/ last.loc.loop = SliceShrinkCap
    \/ /\ last.algo = "elliptical"
       /\ last.loc.loop = EllipticalCap
    \/ /\ last.algo = "hitnrun"
       /\ \/ HitRunOutCap \in {last.loc.outL, last.loc.outR}
          \/ last.loc.loop = HitRunShrinkCap

\* every loop of the last step stayed within its cap, and an HMC step made
\* hmcSteps integrator steps
WithinCaps ==
    /\ last.algo = "slice" =>
         /\ last.loc.outL <= SliceOutCap /\ last.loc.outR <= SliceOutCap
         /\ last.loc.loop <= SliceShrinkCap
    /\ last.algo = "elliptical" => last.loc.loop <= EllipticalCap
    /\ last.algo = "hitnrun" =>
         /\ last.loc.outL <= HitRunOutCap /\ last.loc.outR <= HitRunOutCap
         /\ last.loc.loop <= HitRunShrinkCap
    /\ last.algo = "hmc" => last.loc.i = last.hmcSteps

\* C8 (SpecChain): every kernel step returns, slice after at most 100
\* step-out passes a side and 100 shrink tries, elliptical slice after at
\* most 50 tries, hit-and-run after at most 20 doublings a side and 50 shrink
\* tries, HMC after exactly hmcSteps integrator steps; a step in which a cap
\* was exhausted returns accepted = false.
C8_AnyCapExhaustedRejects ==
    Stepped =>
        /\ last.returned
        /\ WithinCaps
        /\ CapExhausted => ~last.result.accepted

\* C8, without the step-out and doubling caps (SpecChain): every kernel step
\* returns within its caps, and a step that exhausts its shrink or try cap
\* returns accepted = false at the position it started from.
C8_CapsBoundEveryStep ==
    Stepped =>
        /\ last.returned
        /\ WithinCaps
        /\ last.algo = "slice" =>
             (last.loc.loop = SliceShrinkCap <=> ~last.result.accepted)
        /\ last.algo = "elliptical" =>
             (last.loc.loop = EllipticalCap <=> ~last.result.accepted)
        /\ last.algo = "hitnrun" =>
             (last.loc.loop = HitRunShrinkCap <=> ~last.result.accepted)
        /\ ~last.result.accepted =>
             last.result.x = last.prevX /\ last.result.y = last.prevY

\* a slice step whose two step-out loops ran to their cap, accepted at its
\* first try
C8_Witness ==
    /\ last.algo = "slice"
    /\ last.loc.outL = SliceOutCap
    /\ last.loc.outR = SliceOutCap
    /\ last.loc.loop = 0
    /\ last.result.accepted
    /\ last.returned

\* C9 (SpecChain): a step whose result has accepted = false leaves the
\* position where it was, and the sample appended for it carries those
\* coordinates with accepted = false; every step appends its sample.
C9_RejectedStepStays ==
    /\ Len(stateRef.samples) = Min(Len(emitted), Capacity)
    /\ Stepped =>
         LET h == stateRef.samples
         IN  /\ h # <<>>
             /\ h[Len(h)] = [x |-> last.result.x, y |-> last.result.y,
                             accepted |-> last.result.accepted]
             /\ ~last.result.accepted =>
                  /\ stateRef.x = last.prevX /\ stateRef.y = last.prevY
                  /\ h[Len(h)] = [x |-> last.prevX, y |-> last.prevY,
                                  accepted |-> FALSE]

\* a Metropolis rejection of a chain that has left the seed
C9_Witness ==
    /\ last.algo = "rwm"
    /\ ~last.result.accepted
    /\ Len(stateRef.samples) = 2
    /\ stateRef.samples[1].accepted
    /\ <<stateRef.x, stateRef.y>> # <<SeedX, SeedY>>

\* C10 (SpecChain): after an HMC step the trajectory kept is that of the
\* step, hmcSteps + 1 points of which the first is the position before the
\* step; an accepted step puts the position at the last point, a rejected one
\* leaves it at the first.
C10_HmcTrajectory ==
    last.algo = "hmc" =>
        LET path == stateRef.currentPath
            here == [x |-> stateRef.x, y |-> stateRef.y]
        IN  /\ path = last.result.path
            /\ Len(path) = last.hmcSteps + 1
            /\ path[1] = [x |-> last.prevX, y |-> last.prevY]
            /\ last.result.accepted => here = path[Len(path)]
            /\ ~last.result.accepted => here = path[1]

\* a rejected HMC step whose trajectory left the position
C10_Witness ==
    /\ last.algo = "hmc"
    /\ ~last.result.accepted
    /\ Len(stateRef.currentPath) = last.hmcSteps + 1
    /\ stateRef.currentPath[Len(stateRef.currentPath)] # stateRef.currentPath[1]

\* the end points current + L*dir, current + R*dir of the bracket the last
\* step ended with
LastBracketEnds ==
    LET prev == [x |-> last.prevX, y |-> last.prevY]
    IN  <<PointAt(prev, last.loc.L, last.loc.dx, last.loc.dy),
          PointAt(prev, last.loc.R, last.loc.dx, last.loc.dy)>>

\* C11 (SpecChain): after every slice step, accepted or ended by the shrink
\* cap, the trajectory kept is the two end points of the final bracket.
C11_SliceReportsBracket ==
    last.algo = "slice" =>
        /\ last.result.path = LastBracketEnds
        /\ stateRef.currentPath = LastBracketEnds

\* C11, the accepted half only (SpecChain): an accepted slice step reports
\* the two end points of the final bracket.
C11_AcceptedSliceReportsBracket ==
    (last.algo = "slice" /\ last.result.accepted) =>
        /\ last.result.path = LastBracketEnds
        /\ stateRef.currentPath = LastBracketEnds

\* a slice step ended by the shrink cap after a step that left a trajectory:
\* no trajectory is kept
C11_Witness ==
    /\ last.algo = "slice"
    /\ ~last.result.accepted
    /\ last.loc.loop = SliceShrinkCap
    /\ last.prevPath # NoPath
    /\ stateRef.currentPath = NoPath

\* C12 (SpecChain): after every step the trajectory kept is the path the
\* step's kernel call returned, none when it returned none, whatever the
\* step before left; after a step of rwm, mh, elliptical or hitnrun it is
\* none, after a step of hmc it is the trajectory of that step.
C12_TrajectoryIsLastPath ==
    Stepped =>
        /\ stateRef.currentPath = last.result.path
        /\ last.algo \in {"rwm", "mh", "elliptical", "hitnrun"} =>
             stateRef.currentPath = NoPath
        /\ last.algo = "hmc" =>
             /\ stateRef.currentPath # NoPath
             /\ stateRef.currentPath[1] = [x |-> last.prevX, y |-> last.prevY]
        /\ (last.algo = "slice" /\ last.result.accepted) =>
             stateRef.currentPath = LastBracketEnds

\* the step before left a trajectory, this one returned no path: none is kept
C12_Witness ==
    /\ Stepped
    /\ last.prevPath # NoPath
    /\ last.result.path = NoPath
    /\ stateRef.currentPath = NoPath
    /\ Len(stateRef.samples) = 2

\* the brackets the last step went through, in order: the first one, one
\* for each pass of a step-out or doubling loop, one for each shrink
Brackets == last.loc.brackets

\* the number of brackets of the last step that precede its shrinks
BeforeShrinks ==
    IF last.algo = "elliptical" THEN 1 ELSE 1 + last.loc.outL + last.loc.outR

\* C13 (SpecChain): in a step of slice, hit-and-run or elliptical slice every
\* bracket, the first one, the ones the step-out or doubling loops leave
\* and the ones the shrinks leave, has L <= 0 <= R (thetaMin <= 0 <=
\* thetaMax), and no shrink makes the bracket wider.
C13_BracketHoldsCurrent ==
    last.algo \in {"slice", "hitnrun", "elliptical"} =>
        /\ Len(Brackets) = BeforeShrinks + last.loc.loop
        /\ \A i \in 1..Len(Brackets) :
             Le(Brackets[i][1], Zero(0)) /\ Le(Zero(0), Brackets[i][2])
        /\ \A i \in (BeforeShrinks + 1)..Len(Brackets) :
             /\ Le(Sub(Brackets[i][2], Brackets[i][1]),
                   Sub(Brackets[i - 1][2], Brackets[i - 1][1]))
             /\ Ge(Brackets[i][1], Brackets[i - 1][1])
             /\ Le(Brackets[i][2], Brackets[i - 1][2])
        /\ last.algo # "elliptical" =>
             Brackets[Len(Brackets)] = <<last.loc.L, last.loc.R>>
        /\ last.algo = "elliptical" =>
             Brackets[Len(Brackets)] = <<last.loc.thetaMin, last.loc.thetaMax>>

\* a slice step that extended its bracket on the left and then shrank it on
\* both sides
C13_Witness ==
    /\ last.algo = "slice"
    /\ last.loc.outL >= 1
    /\ last.loc.loop >= 2
    /\ Gt(last.loc.L, Brackets[BeforeShrinks][1])
    /\ Lt(last.loc.R, Brackets[BeforeShrinks][2])

=============================================================================
